---- MODULE Spec2Model ----
(***************************************************************************)
(* Babble (dacort/ai-radio): the session-log ingestion pipeline.           *)
(*                                                                         *)
(*   sessions.Manager  (src/unnamed/part_003)  the Watcher and its Tailers *)
(*   hub.Hub           (src/unnamed/part_000)  the broadcast Hub + Gateway *)
(*   server.New        (src/internal/server/server.go)  the ingress queue  *)
(*                                                                         *)
(* A path is a sequence of components below the filesystem root, so that   *)
(* filepath.Dir and filepath.Base are SubSeq and the last element.  A file *)
(* is a sequence of tokens.  The tokens stand for pieces of JSON text:     *)
(*   "{"   the first half of a record that classifies to an event          *)
(*   "}"   the second half of that record                                  *)
(*   "S"   a whole file-history-snapshot record (ErrSkipEvent)             *)
(*   "\n"  the line terminator                                             *)
(* so <<"{","}">> is the only line json.Unmarshal accepts as an event.     *)
(***************************************************************************)
EXTENDS Integers, Sequences, FiniteSets, TLC

VARIABLES
    dirs,        \* directories that exist on disk
    present,     \* regular files that exist on disk
    content,     \* content[f]: the tokens of file f
    appendsLeft, \* appends the log writer may still make
    faultsLeft,  \* I/O failures the environment may still inject
    watched,     \* directories added to the fsnotify watcher
    fsq,         \* watcher.Events: pending notifications, oldest first
    wpc,         \* position of Manager.Start: "new", "loop", "returned"
    done,        \* m.done is closed
    tailing,     \* m.tailing: path -> number of wake-ups pending in its channel
    live,        \* live[f]: tail goroutines for f that have not returned
    tl,          \* tl[f]: the local state of the tail goroutine of f
    eventCh,     \* the ingress channel, oldest first
    enq,         \* history: every event sent on eventCh, in order
    classified,  \* history: every (path, offset, bytes) passed to ParseLine, in order
    lastStart,   \* history: paths for which startTailing found an entry
    spc,         \* spc[p]: position of caller p in Manager.Stop: "idle" or "close"
    closes,      \* number of close(m.done) executed; the second one panics
    atStart,     \* history: the size of f when Start ran its sweep, -1 if f did not exist
    addErr,      \* the directories for which watcher.Add returns an error
    clients,     \* h.clients: the connections registered with the Hub
    conn,        \* conn[c]: "none", "upgraded", "open" or "closed" (server side)
    peer,        \* peer[c]: "ok" reads, "stalled" does not read, "gone" has left
    hpc,         \* position of Hub.Run: "recv", "bcast" (holding h.mu), "returned"
    payload,     \* the frame being broadcast
    todo,        \* connections the range loop of broadcast has yet to visit
    recv,        \* recv[c]: the frames written to c, in order
    seq,         \* number of events Hub.Run has taken from eventCh
    offered,     \* number of events the producer of HubSpec has sent
    drain,       \* drain[c]: the read goroutine of HandleWS is running
    startSet,    \* history: h.clients when the current fan-out started
    failed,      \* history: connections whose write failed in this fan-out
    closed,      \* the ingress channel has been closed by its owner
    closedBy,    \* history: closedBy[c]: the callers of conn.Close() on c, in order
    rawIn,       \* the file a line comes from and the JSON text of the line
    parsed,      \* what events.ParseLine returned for the text of rawIn
    cfgFile,     \* the config file on disk: absent, or the saved Config
    reply        \* the last HTTP response of the ConfigHandler

mvars == <<dirs, present, content, appendsLeft, faultsLeft, watched, fsq, wpc,
           done, tailing, live, tl, eventCh, enq, classified, lastStart, spc,
           closes, atStart, addErr>>

hvars == <<clients, conn, peer, hpc, payload, todo, recv, seq, offered, drain,
           startSet, failed, closed, closedBy>>

\* the Classifier called on its own, and the ConfigHandler
avars == <<rawIn, parsed, cfgFile, reply>>

\* the variables a manager step leaves alone, and those a hub step leaves alone
hrest == <<clients, conn, peer, hpc, payload, todo, recv, seq, offered, drain,
           startSet, failed, closed, closedBy, addErr, avars>>
mrest == <<dirs, present, content, appendsLeft, faultsLeft, watched, fsq, wpc,
           done, tailing, live, tl, enq, classified, lastStart, spc, closes,
           atStart, addErr, avars>>

vars == <<mvars, hvars, avars>>

(***************************************************************************)
(* Bounds of the model.                                                    *)
(***************************************************************************)
MaxAppends == 3   \* appends of the byte-level writer (TailSpec)
MaxWrites == 1    \* appends of the directory-level writer (Spec)
MaxFaults == 1    \* injected I/O failures (FaultSpec)
ChanCap == 1      \* capacity of the channel handed to NewManager
MaxEvents == 3    \* events offered to the Hub (HubSpec)
\* records appended to the followed file in IngressSpec
MaxRecords == 2
MaxCwd == 3       \* characters of a cwd given to the Classifier
MaxBlocks == 2    \* elements of a content array given to the Classifier
MaxScalars == 82  \* Unicode scalars of a string from which a detail is taken
MaxName == 2      \* characters of the {name} of a manifest request

(***************************************************************************)
(* The directory tree.                                                     *)
(***************************************************************************)
watchPath == <<"r">>
ProjP == <<"r", "p">>
ProjQ == <<"r", "q">>
FileA == <<"r", "p", "a.jsonl">>
FileC == <<"r", "q", "c.jsonl">>
\* a session-id directory, its subagents directory and a subagent log
SessP == <<"r", "p", "s">>
SubP == <<"r", "p", "s", "subagents">>
FileS == <<"r", "p", "s", "subagents", "g.jsonl">>
\* .jsonl files outside the layout: in the root, and in a session-id directory
FileR == <<"r", "x.jsonl">>
FileD == <<"r", "p", "s", "y.jsonl">>

\* a project directory with the name of the root, and the subagent log of a
\* session in it
ProjR == <<"r", "r">>
FileG == <<"r", "r", "s", "subagents", "g.jsonl">>

DirUniverse == {watchPath, ProjP, ProjQ, SessP, SubP, ProjR,
                <<"r", "r", "s">>, <<"r", "r", "s", "subagents">>}
FileUniverse == {FileA, FileC, FileS, FileR, FileD, FileG}
JsonlNames == {"a.jsonl", "c.jsonl", "g.jsonl", "x.jsonl", "y.jsonl"}

\* the project directories and the session logs directly inside them
ProjectDirs == {ProjP, ProjQ}
SessionLogs == {FileA, FileC}

NL == "\n"
Chunks == { <<"{">>, <<"}", NL>>, <<"{", "}", NL>>, <<"S", NL>> }
EventLine == <<"{", "}", NL>>
SkipLine == <<"S", NL>>      \* a record ParseLine answers with ErrSkipEvent
ErrorLine == <<"}", NL>>     \* a line json.Unmarshal rejects
InitContents == { <<>>, EventLine, <<"{">> }

Base(path) == path[Len(path)]
Dir(path) == SubSeq(path, 1, Len(path) - 1)

isDir(path) == path \in dirs
isJSONL(path) == Base(path) \in JsonlNames
watchDirBase == Base(watchPath)

\* filepath.Glob(dir/*.jsonl): the entries of dir whose name ends in .jsonl
Glob(dir) == {f \in present \cup dirs : Len(f) > 1 /\ Dir(f) = dir /\ isJSONL(f)}
\* os.ReadDir(dir), keeping the entries that are directories
ReadDirDirs(dir) == {d \in dirs : Len(d) > 1 /\ Dir(d) = dir}


(***************************************************************************)
(* The reader of a Tailer: bufio.Reader over the file, or over the         *)
(* io.MultiReader that tail installs when ReadBytes ends in a partial line.*)
(*   cursor  the offset of the file handle f                               *)
(*   buf     bytes bufio has read from its source and not yet returned     *)
(*   rd      "file": bufio reads f;  "multi": bufio reads the MultiReader  *)
(*   mr      the readers the MultiReader has left, in order                *)
(*   str     the unread bytes of the strings.Reader holding the carry-over *)
(*   start   history: the offset at which this Tailer began to read        *)
(***************************************************************************)
NoEv == [path |-> <<>>, off |-> -1, line |-> <<>>, isSubagent |-> FALSE]

NoTail == [pc |-> "none", seekEnd |-> FALSE, cursor |-> 0, buf |-> <<>>,
           rd |-> "file", mr |-> <<>>, str |-> <<>>, ev |-> NoEv,
           isSubagent |-> FALSE, start |-> 0]

\* strings.Contains(path, "/subagents/")
isSubagentPath(path) == \E i \in 1..(Len(path) - 1) : path[i] = "subagents"

\* a tail that leaves ev.IsSubagent as ParseLine returns it, which is false
NewTailFlagUnset(path, seekEnd) ==
    [NoTail EXCEPT !.pc = "open", !.seekEnd = seekEnd]

\* the goroutine started by `go m.tail(path, seekEnd, notifyCh, isSubagent)`
NewTail(path, seekEnd) ==
    [NoTail EXCEPT !.pc = "open", !.seekEnd = seekEnd,
                   !.isSubagent = isSubagentPath(path)]

\* f.Read at the current offset: everything the file holds beyond it
FileRead(t, data) ==
    LET avail == SubSeq(data, t.cursor + 1, Len(data))
    IN  [bytes |-> avail, eof |-> (avail = <<>>),
         t |-> [t EXCEPT !.cursor = IF Len(data) > @ THEN Len(data) ELSE @]]

\* io.multiReader.Read: a reader that reports EOF is dropped from the list for
\* good; with no reader left every later Read reports EOF.
RECURSIVE MultiRead(_, _)
MultiRead(t, data) ==
    IF t.mr = <<>> THEN [bytes |-> <<>>, eof |-> TRUE, t |-> t]
    ELSE IF Head(t.mr) = "str"
         THEN IF t.str # <<>>
              THEN [bytes |-> t.str, eof |-> FALSE, t |-> [t EXCEPT !.str = <<>>]]
              ELSE MultiRead([t EXCEPT !.mr = Tail(@)], data)
         ELSE LET r == FileRead(t, data)
              IN  IF r.eof THEN MultiRead([r.t EXCEPT !.mr = Tail(@)], data)
                  ELSE r

\* one Read of the source bufio currently wraps
SourceRead(t, data) ==
    IF t.rd = "file" THEN FileRead(t, data) ELSE MultiRead(t, data)

IndexOfNL(s) == IF \E i \in 1..Len(s) : s[i] = NL
                THEN CHOOSE i \in 1..Len(s) : s[i] = NL /\ \A j \in 1..(i - 1) : s[j] # NL
                ELSE 0

\* bufio.Reader.ReadBytes('\n'): the buffered bytes up to and including the
\* first newline; the source is read again while the buffer holds none; at EOF
\* everything buffered is returned together with io.EOF.
RECURSIVE ReadBytes(_, _)
ReadBytes(t, data) ==
    LET i == IndexOfNL(t.buf)
    IN  IF i > 0
        THEN [line |-> SubSeq(t.buf, 1, i), eof |-> FALSE,
              t |-> [t EXCEPT !.buf = SubSeq(@, i + 1, Len(@))]]
        ELSE LET r == SourceRead(t, data)
             IN  IF r.eof
                 THEN [line |-> t.buf, eof |-> TRUE, t |-> [r.t EXCEPT !.buf = <<>>]]
                 ELSE ReadBytes([r.t EXCEPT !.buf = t.buf \o r.bytes], data)

\* reader.Reset(io.MultiReader(strings.NewReader(string(line)), f))
ResetMulti(t, line) ==
    [t EXCEPT !.buf = <<>>, !.rd = "multi", !.mr = <<"str", "file">>, !.str = line]

\* strings.TrimRight(line, "\r\n")
RECURSIVE TrimRight(_)
TrimRight(s) ==
    IF s # <<>> /\ s[Len(s)] \in {NL, "\r"} THEN TrimRight(SubSeq(s, 1, Len(s) - 1))
    ELSE s

\* events.ParseLine on the tokens of one line: an event, ErrSkipEvent, or a
\* json.Unmarshal error.
ParseLine(line) ==
    IF line = <<"{", "}">> THEN "event"
    ELSE IF line = <<"S">> THEN "skip"
    ELSE "error"

\* the offset in the file of the next byte ReadBytes will return
StreamPos(t) == t.cursor - Len(t.buf) - Len(t.str)

(***************************************************************************)
(* Manager operations on the registry.  m is the record                    *)
(* [watched, tailing, live, tl, lastStart] of the fields they update.      *)
(***************************************************************************)
\* startTailing without its `if _, ok := m.tailing[path]; ok` early return
startTailingNoCheck(m, path, seekEnd) ==
    [m EXCEPT !.tailing = [q \in (DOMAIN m.tailing) \cup {path} |->
                              IF q = path THEN 0 ELSE m.tailing[q]],
              !.live[path] = @ + 1,
              !.tl[path] = NewTail(path, seekEnd)]

\* startTailing (part_003:245-258): test-and-set on m.tailing, then `go m.tail`
startTailing(m, path, seekEnd) ==
    IF path \in DOMAIN m.tailing
    THEN [m EXCEPT !.lastStart = @ \cup {path}]
    ELSE [m EXCEPT !.tailing = [q \in (DOMAIN m.tailing) \cup {path} |->
                                   IF q = path THEN 0 ELSE m.tailing[q]],
                   !.live[path] = @ + 1,
                   !.tl[path] = NewTail(path, seekEnd)]

\* notifyWrite on a channel without buffer: the send succeeds only while the
\* Tailer is waiting in its EOF select
notifyWriteUnbuffered(m, path) ==
    IF path \in DOMAIN m.tailing /\ m.tl[path].pc = "wait"
    THEN [m EXCEPT !.tailing[path] = 1]
    ELSE m

\* notifyWrite (part_003:261-273): non-blocking send on the one-slot channel
notifyWrite(m, path) ==
    IF path \in DOMAIN m.tailing THEN [m EXCEPT !.tailing[path] = 1] ELSE m

\* `for _, path := range matches { m.startTailing(path, seekEnd) }`
RECURSIVE startAll(_, _, _)
startAll(m, paths, seekEnd) ==
    IF paths = {} THEN m
    ELSE LET p == CHOOSE x \in paths : TRUE
         IN  startAll(startTailing(m, p, seekEnd), paths \ {p}, seekEnd)

\* watchSubagentDir (part_003:181-194): returns when watcher.Add fails
watchSubagentDir(m, dir, seekEnd) ==
    IF dir \in addErr THEN m
    ELSE startAll([m EXCEPT !.watched = @ \cup {dir}], Glob(dir), seekEnd)

\* discoverSubagents (part_003:157-178): the result of watcher.Add(sessionDir)
\* is not looked at
RECURSIVE discoverEach(_, _, _)
discoverEach(m, sessionDirs, seekEnd) ==
    IF sessionDirs = {} THEN m
    ELSE LET d == CHOOSE x \in sessionDirs : TRUE
             w == IF d \in addErr THEN m ELSE [m EXCEPT !.watched = @ \cup {d}]
             sub == Append(d, "subagents")
         IN  discoverEach(IF isDir(sub) THEN watchSubagentDir(w, sub, seekEnd) ELSE w,
                          sessionDirs \ {d}, seekEnd)

discoverSubagents(m, projectDir, seekEnd) ==
    discoverEach(m, ReadDirDirs(projectDir), seekEnd)

\* watchProjectDir (part_003:134-153): returns when watcher.Add fails
watchProjectDir(m, dir, seekEnd) ==
    IF dir \in addErr THEN m
    ELSE discoverSubagents(startAll([m EXCEPT !.watched = @ \cup {dir}], Glob(dir), seekEnd),
                           dir, seekEnd)

\* discoverExisting (part_003:109-126)
RECURSIVE discoverExisting(_, _)
discoverExisting(m, projectDirs) ==
    IF projectDirs = {} THEN m
    ELSE LET d == CHOOSE x \in projectDirs : TRUE
         IN  discoverExisting(watchProjectDir(m, d, TRUE), projectDirs \ {d})

\* handleFSEvent that starts every Tailer at the end of its file
handleFSEventSeekEnd(m, ev) ==
    LET path == ev.name
    IN  IF ev.op = "create" /\ isDir(path)
        THEN IF Base(path) = "subagents"
             THEN watchSubagentDir(m, path, TRUE)
             ELSE IF Base(Dir(path)) = watchDirBase
                  THEN watchProjectDir(m, path, TRUE)
                  ELSE LET w == IF path \in addErr THEN m
                                    ELSE [m EXCEPT !.watched = @ \cup {path}]
                           sub == Append(path, "subagents")
                       IN  IF isDir(sub) THEN watchSubagentDir(w, sub, TRUE) ELSE w
        ELSE IF ev.op = "create" /\ isJSONL(path)
             THEN startTailing(m, path, TRUE)
             ELSE IF ev.op = "write" /\ isJSONL(path)
                  THEN notifyWrite(startTailing(m, path, TRUE), path)
                  ELSE m

\* handleFSEvent (part_003:197-234)
handleFSEvent(m, ev) ==
    LET path == ev.name
    IN  IF ev.op = "create" /\ isDir(path)
        THEN IF Base(path) = "subagents"
             THEN watchSubagentDir(m, path, FALSE)
             ELSE IF Base(Dir(path)) = watchDirBase
                  THEN watchProjectDir(m, path, FALSE)
                  ELSE LET w == IF path \in addErr THEN m
                                    ELSE [m EXCEPT !.watched = @ \cup {path}]
                           sub == Append(path, "subagents")
                       IN  IF isDir(sub) THEN watchSubagentDir(w, sub, FALSE) ELSE w
        ELSE IF ev.op = "create" /\ isJSONL(path)
             THEN startTailing(m, path, FALSE)
             ELSE IF ev.op = "write" /\ isJSONL(path)
                  THEN notifyWrite(startTailing(m, path, FALSE), path)
                  ELSE m


(***************************************************************************)
(* State of the manager as the record the operations above work on.        *)
(***************************************************************************)
M == [watched |-> watched, tailing |-> tailing, live |-> live, tl |-> tl,
      lastStart |-> lastStart]

SetM(m) ==
    /\ watched' = m.watched
    /\ tailing' = m.tailing
    /\ live' = m.live
    /\ tl' = m.tl
    /\ lastStart' = m.lastStart

\* an inotify event reaches watcher.Events only when the parent is watched
Notify(op, path) ==
    IF Dir(path) \in watched THEN Append(fsq, [op |-> op, name |-> path]) ELSE fsq

(***************************************************************************)
(* The environment: the process that writes the session logs.              *)
(***************************************************************************)
Mkdir(d) ==
    /\ d \notin dirs
    /\ Dir(d) \in dirs
    /\ dirs' = dirs \cup {d}
    /\ fsq' = Notify("create", d)
    /\ UNCHANGED <<present, content, appendsLeft, faultsLeft, watched, wpc, done,
                   tailing, live, tl, eventCh, enq, classified, lastStart>>
    /\ UNCHANGED <<hrest, spc, closes, atStart>>

CreateFile(f) ==
    /\ f \notin present
    /\ Dir(f) \in dirs
    /\ present' = present \cup {f}
    /\ fsq' = Notify("create", f)
    /\ UNCHANGED <<dirs, content, appendsLeft, faultsLeft, watched, wpc, done,
                   tailing, live, tl, eventCh, enq, classified, lastStart>>
    /\ UNCHANGED <<hrest, spc, closes, atStart>>

AppendFile(f, chunk) ==
    /\ f \in present
    /\ appendsLeft > 0
    /\ appendsLeft' = appendsLeft - 1
    /\ content' = [content EXCEPT ![f] = @ \o chunk]
    /\ fsq' = Notify("write", f)
    /\ UNCHANGED <<dirs, present, faultsLeft, watched, wpc, done,
                   tailing, live, tl, eventCh, enq, classified, lastStart>>
    /\ UNCHANGED <<hrest, spc, closes, atStart>>

(***************************************************************************)
(* Manager.Start and Manager.Stop (part_003:59-106).                       *)
(***************************************************************************)
\* the goroutines that call Manager.Stop
Callers == {"s1", "s2"}

\* a second close(m.done) panics ("close of closed channel") and the process dies
Alive == closes <= 1

\* watcher.Add(m.watchPath), on whose error Start returns it, and the startup
\* sweep discoverExisting
Start ==
    /\ Alive
    /\ wpc = "new"
    /\ wpc' = IF watchPath \in addErr THEN "returned" ELSE "loop"
    /\ SetM(IF watchPath \in addErr THEN M
            ELSE discoverExisting([M EXCEPT !.watched = @ \cup {watchPath}],
                                  ReadDirDirs(watchPath)))
    /\ atStart' = [f \in FileUniverse |-> IF f \in present THEN Len(content[f]) ELSE -1]
    /\ UNCHANGED <<dirs, present, content, appendsLeft, faultsLeft, fsq, done,
                   eventCh, enq, classified>>
    /\ UNCHANGED <<hrest, spc, closes>>

\* a handleFSEvent whose notifyWrite sends without `default`: the Watcher waits
\* until the slot of the Tailer's channel is free
HandleEventBlockingNotify ==
    /\ Alive
    /\ wpc = "loop"
    /\ fsq # <<>>
    /\ ~(/\ Head(fsq).op = "write"
         /\ Head(fsq).name \in DOMAIN tailing
         /\ tailing[Head(fsq).name] = 1)
    /\ fsq' = Tail(fsq)
    /\ SetM(handleFSEvent(M, Head(fsq)))
    /\ UNCHANGED <<dirs, present, content, appendsLeft, faultsLeft, wpc, done,
                   eventCh, enq, classified>>
    /\ UNCHANGED <<hrest, spc, closes, atStart>>

\* `case ev, ok := <-watcher.Events`: select may take this case also when
\* m.done is closed, since both are then ready
HandleEvent ==
    /\ Alive
    /\ wpc = "loop"
    /\ fsq # <<>>
    /\ fsq' = Tail(fsq)
    /\ SetM(handleFSEvent(M, Head(fsq)))
    /\ UNCHANGED <<dirs, present, content, appendsLeft, faultsLeft, wpc, done,
                   eventCh, enq, classified>>
    /\ UNCHANGED <<hrest, spc, closes, atStart>>

\* `case <-m.done: return nil`, then the deferred watcher.Close()
StartReturn ==
    /\ Alive
    /\ wpc = "loop"
    /\ done
    /\ wpc' = "returned"
    /\ watched' = {}
    /\ fsq' = <<>>
    /\ UNCHANGED <<dirs, present, content, appendsLeft, faultsLeft, done,
                   tailing, live, tl, eventCh, enq, classified, lastStart>>
    /\ UNCHANGED <<hrest, spc, closes, atStart>>

\* a Start loop that returns when the watcher reports an error
WatcherErrorReturn ==
    /\ Alive
    /\ wpc = "loop"
    /\ faultsLeft > 0
    /\ faultsLeft' = faultsLeft - 1
    /\ wpc' = "returned"
    /\ watched' = {}
    /\ fsq' = <<>>
    /\ UNCHANGED <<dirs, present, content, appendsLeft, done,
                   tailing, live, tl, eventCh, enq, classified, lastStart>>
    /\ UNCHANGED <<hrest, spc, closes, atStart>>

\* `case fsErr, ok := <-watcher.Errors`: the error is logged and the loop goes on
WatcherError ==
    /\ Alive
    /\ wpc = "loop"
    /\ faultsLeft > 0
    /\ faultsLeft' = faultsLeft - 1
    /\ UNCHANGED <<dirs, present, content, appendsLeft, watched, fsq, wpc, done,
                   tailing, live, tl, eventCh, enq, classified, lastStart>>
    /\ UNCHANGED <<hrest, spc, closes, atStart>>

\* Stop, first half: the select on m.done without a lock; `default` is taken
\* when the channel is not closed yet
StopSelect(p) ==
    /\ Alive
    /\ spc[p] = "idle"
    /\ spc' = [spc EXCEPT ![p] = IF done THEN "idle" ELSE "close"]
    /\ UNCHANGED <<dirs, present, content, appendsLeft, faultsLeft, watched, fsq,
                   wpc, done, tailing, live, tl, eventCh, enq, classified,
                   lastStart, closes, atStart>>
    /\ UNCHANGED hrest

\* Stop, second half: close(m.done) in the default branch
StopClose(p) ==
    /\ Alive
    /\ spc[p] = "close"
    /\ spc' = [spc EXCEPT ![p] = "idle"]
    /\ closes' = closes + 1
    /\ done' = TRUE
    /\ UNCHANGED <<dirs, present, content, appendsLeft, faultsLeft, watched, fsq,
                   wpc, tailing, live, tl, eventCh, enq, classified, lastStart,
                   atStart>>
    /\ UNCHANGED hrest

Stop == \E p \in Callers : StopSelect(p) \/ StopClose(p)

(***************************************************************************)
(* Manager.tail (part_003:278-344), one action per blocking point.         *)
(***************************************************************************)
Running(f) == Alive /\ live[f] > 0

\* a tail that ends without the deferred delete(m.tailing, path)
TailExitKeepEntry(f) ==
    /\ live' = [live EXCEPT ![f] = @ - 1]
    /\ tl' = [tl EXCEPT ![f] = NoTail]
    /\ UNCHANGED tailing

\* the deferred delete(m.tailing, path): the last step of the goroutine
TailExit(f) ==
    /\ tailing' = [q \in (DOMAIN tailing) \ {f} |-> tailing[q]]
    /\ live' = [live EXCEPT ![f] = @ - 1]
    /\ tl' = [tl EXCEPT ![f] = NoTail]

\* os.Open, and f.Seek(0, io.SeekEnd) when seekEnd
TailOpen(f) ==
    /\ Running(f)
    /\ tl[f].pc = "open"
    /\ IF f \in present
       THEN /\ tl' = [tl EXCEPT ![f].pc = "read",
                                ![f].cursor = IF tl[f].seekEnd THEN Len(content[f]) ELSE 0,
                                ![f].start = IF tl[f].seekEnd THEN Len(content[f]) ELSE 0]
            /\ UNCHANGED <<tailing, live>>
       ELSE TailExit(f)
    /\ UNCHANGED <<dirs, present, content, appendsLeft, faultsLeft, watched, fsq,
                   wpc, done, eventCh, enq, classified, lastStart>>
    /\ UNCHANGED <<hrest, spc, closes, atStart>>

\* a tail that returns on the error without the deferred delete
TailOpenFailKeepEntry(f) ==
    /\ Running(f)
    /\ tl[f].pc = "open"
    /\ faultsLeft > 0
    /\ faultsLeft' = faultsLeft - 1
    /\ live' = [live EXCEPT ![f] = @ - 1]
    /\ tl' = [tl EXCEPT ![f] = NoTail]
    /\ UNCHANGED <<dirs, present, content, appendsLeft, watched, fsq,
                   wpc, done, tailing, eventCh, enq, classified, lastStart>>
    /\ UNCHANGED <<hrest, spc, closes, atStart>>

\* os.Open or f.Seek returns an error: log and return
TailOpenFail(f) ==
    /\ Running(f)
    /\ tl[f].pc = "open"
    /\ faultsLeft > 0
    /\ faultsLeft' = faultsLeft - 1
    /\ TailExit(f)
    /\ UNCHANGED <<dirs, present, content, appendsLeft, watched, fsq,
                   wpc, done, eventCh, enq, classified, lastStart>>
    /\ UNCHANGED <<hrest, spc, closes, atStart>>

\* a read loop that returns when ParseLine answers with an error
TailReadStopOnError(f) ==
    /\ Running(f)
    /\ tl[f].pc = "read"
    /\ LET r == ReadBytes(tl[f], content[f])
           off == StreamPos(tl[f])
           trimmed == TrimRight(r.line)
       IN  IF r.eof
           THEN /\ tl' = [tl EXCEPT ![f] =
                            [(IF Len(r.line) > 0 THEN ResetMulti(r.t, r.line) ELSE r.t)
                               EXCEPT !.pc = "wait"]]
                /\ UNCHANGED <<classified, tailing, live>>
           ELSE IF trimmed = <<>>
                THEN /\ tl' = [tl EXCEPT ![f] = r.t]
                     /\ UNCHANGED <<classified, tailing, live>>
                ELSE /\ classified' = Append(classified,
                                              [path |-> f, off |-> off, bytes |-> trimmed])
                     /\ IF ParseLine(trimmed) = "event"
                        THEN /\ tl' = [tl EXCEPT ![f] =
                                         [r.t EXCEPT !.pc = "send",
                                                     !.ev = [path |-> f, off |-> off,
                                                             line |-> trimmed,
                                                             isSubagent |-> r.t.isSubagent]]]
                             /\ UNCHANGED <<tailing, live>>
                        ELSE TailExit(f)
    /\ UNCHANGED <<dirs, present, content, appendsLeft, faultsLeft, watched, fsq,
                   wpc, done, eventCh, enq, lastStart>>
    /\ UNCHANGED <<hrest, spc, closes, atStart>>

\* one iteration of the read loop, up to the next select
TailRead(f) ==
    /\ Running(f)
    /\ tl[f].pc = "read"
    /\ LET r == ReadBytes(tl[f], content[f])
           off == StreamPos(tl[f])
           trimmed == TrimRight(r.line)
       IN  IF r.eof
           THEN /\ tl' = [tl EXCEPT ![f] =
                            [(IF Len(r.line) > 0 THEN ResetMulti(r.t, r.line) ELSE r.t)
                               EXCEPT !.pc = "wait"]]
                /\ UNCHANGED classified
           ELSE IF trimmed = <<>>
                THEN /\ tl' = [tl EXCEPT ![f] = r.t]
                     /\ UNCHANGED classified
                ELSE /\ classified' = Append(classified,
                                              [path |-> f, off |-> off, bytes |-> trimmed])
                     /\ tl' = [tl EXCEPT ![f] =
                                 IF ParseLine(trimmed) = "event"
                                 THEN [r.t EXCEPT !.pc = "send",
                                                  !.ev = [path |-> f, off |-> off,
                                                          line |-> trimmed,
                                                          isSubagent |-> r.t.isSubagent]]
                                 ELSE r.t]
    /\ UNCHANGED <<dirs, present, content, appendsLeft, faultsLeft, watched, fsq,
                   wpc, done, tailing, live, eventCh, enq, lastStart>>
    /\ UNCHANGED <<hrest, spc, closes, atStart>>

\* reader.ReadBytes returns an error other than io.EOF: log and return
TailReadFail(f) ==
    /\ Running(f)
    /\ tl[f].pc = "read"
    /\ faultsLeft > 0
    /\ faultsLeft' = faultsLeft - 1
    /\ TailExit(f)
    /\ UNCHANGED <<dirs, present, content, appendsLeft, watched, fsq,
                   wpc, done, eventCh, enq, classified, lastStart>>
    /\ UNCHANGED <<hrest, spc, closes, atStart>>

\* `case <-notifyCh:` of the EOF select
TailWake(f) ==
    /\ Running(f)
    /\ tl[f].pc = "wait"
    /\ f \in DOMAIN tailing
    /\ tailing[f] = 1
    /\ tailing' = [tailing EXCEPT ![f] = 0]
    /\ tl' = [tl EXCEPT ![f].pc = "read"]
    /\ UNCHANGED <<dirs, present, content, appendsLeft, faultsLeft, watched, fsq,
                   wpc, done, live, eventCh, enq, classified, lastStart>>
    /\ UNCHANGED <<hrest, spc, closes, atStart>>

\* a send that does not wait for room in the channel
TailSendNoWait(f) ==
    /\ Running(f)
    /\ tl[f].pc = "send"
    /\ eventCh' = Append(eventCh, tl[f].ev)
    /\ enq' = Append(enq, tl[f].ev)
    /\ tl' = [tl EXCEPT ![f].pc = "read", ![f].ev = NoEv]
    /\ UNCHANGED <<dirs, present, content, appendsLeft, faultsLeft, watched, fsq,
                   wpc, done, tailing, live, classified, lastStart>>
    /\ UNCHANGED <<hrest, spc, closes, atStart>>

\* `case m.eventCh <- ev:` of the send select
TailSend(f) ==
    /\ Running(f)
    /\ tl[f].pc = "send"
    /\ Len(eventCh) < ChanCap
    /\ eventCh' = Append(eventCh, tl[f].ev)
    /\ enq' = Append(enq, tl[f].ev)
    /\ tl' = [tl EXCEPT ![f].pc = "read", ![f].ev = NoEv]
    /\ UNCHANGED <<dirs, present, content, appendsLeft, faultsLeft, watched, fsq,
                   wpc, done, tailing, live, classified, lastStart>>
    /\ UNCHANGED <<hrest, spc, closes, atStart>>

\* a tail whose send on m.eventCh does not select on m.done
TailDoneWaitOnly(f) ==
    /\ Running(f)
    /\ tl[f].pc = "wait"
    /\ done
    /\ TailExit(f)
    /\ UNCHANGED <<dirs, present, content, appendsLeft, faultsLeft, watched, fsq,
                   wpc, done, eventCh, enq, classified, lastStart>>
    /\ UNCHANGED <<hrest, spc, closes, atStart>>

\* `case <-m.done: return` of either select
TailDone(f) ==
    /\ Running(f)
    /\ tl[f].pc \in {"wait", "send"}
    /\ done
    /\ TailExit(f)
    /\ UNCHANGED <<dirs, present, content, appendsLeft, faultsLeft, watched, fsq,
                   wpc, done, eventCh, enq, classified, lastStart>>
    /\ UNCHANGED <<hrest, spc, closes, atStart>>

\* the consumer of the ingress channel
Recv ==
    /\ eventCh # <<>>
    /\ eventCh' = Tail(eventCh)
    /\ UNCHANGED <<dirs, present, content, appendsLeft, faultsLeft, watched, fsq,
                   wpc, done, tailing, live, tl, enq, classified, lastStart>>
    /\ UNCHANGED <<hrest, spc, closes, atStart>>

MgrInit(appends, faults, contents) ==
    /\ dirs = {watchPath, ProjP}
    /\ present = {FileA}
    /\ content \in {[f \in FileUniverse |-> IF f = FileA THEN c ELSE <<>>] : c \in contents}
    /\ appendsLeft = appends
    /\ faultsLeft = faults
    /\ watched = {}
    /\ fsq = <<>>
    /\ wpc = "new"
    /\ done = FALSE
    /\ tailing = <<>>
    /\ live = [f \in FileUniverse |-> 0]
    /\ tl = [f \in FileUniverse |-> NoTail]
    /\ eventCh = <<>>
    /\ enq = <<>>
    /\ classified = <<>>
    /\ lastStart = {}
    /\ spc = [p \in Callers |-> "idle"]
    /\ closes = 0
    /\ atStart = [f \in FileUniverse |-> 0]

\* the log writer of the directory-level model: directories and files
\* appear, and whole records are appended to any file
WatchEnv ==
    \/ \E d \in ProjectDirs : Mkdir(d)
    \/ \E f \in SessionLogs : CreateFile(f)
    \/ \E f \in SessionLogs : AppendFile(f, EventLine)

\* the log writer of the byte-level model: one file, written in pieces
TailEnv == \E chunk \in Chunks : AppendFile(FileA, chunk)

(***************************************************************************)
(* The Hub and the Gateway (part_000:94-181).                              *)
(***************************************************************************)
Conns == {"c1", "c2"}

NoFrame == [seq |-> 0, ev |-> NoEv]

\* json.Marshal(ev): the frame of the seq-th event taken from the channel
Marshal(ev, n) == [seq |-> n, ev |-> ev]

\* a write that puts the frame ahead of those written before
DeliverFront(frames, frame) == <<frame>> \o frames

\* a successful conn.WriteMessage puts the frame behind those written before
Deliver(frames, frame) == Append(frames, frame)

\* a range loop that ends as soon as the channel is closed, whatever it holds
HubTakeUntilClosed ==
    /\ hpc = "recv"
    /\ IF eventCh # <<>> /\ ~closed
       THEN /\ eventCh' = Tail(eventCh)
            /\ seq' = seq + 1
            /\ payload' = Marshal(Head(eventCh), seq + 1)
            /\ hpc' = "bcast"
            /\ todo' = clients
            /\ startSet' = clients
            /\ failed' = {}
       ELSE /\ closed
            /\ hpc' = "returned"
            /\ UNCHANGED <<eventCh, seq, payload, todo, startSet, failed>>
    /\ UNCHANGED <<clients, conn, peer, recv, offered, drain>>
    /\ UNCHANGED <<mrest, closed, closedBy>>

\* one evaluation of `for ev := range h.eventCh` in Hub.Run: the next event,
\* which is serialized and for which broadcast locks h.mu, or the end of the
\* loop when the channel is closed and holds nothing more
HubTake ==
    /\ hpc = "recv"
    /\ IF eventCh # <<>>
       THEN /\ eventCh' = Tail(eventCh)
            /\ seq' = seq + 1
            /\ payload' = Marshal(Head(eventCh), seq + 1)
            /\ hpc' = "bcast"
            /\ todo' = clients
            /\ startSet' = clients
            /\ failed' = {}
       ELSE /\ closed
            /\ hpc' = "returned"
            /\ UNCHANGED <<eventCh, seq, payload, todo, startSet, failed>>
    /\ UNCHANGED <<clients, conn, peer, recv, offered, drain>>
    /\ UNCHANGED <<mrest, closed, closedBy>>

\* broadcast whose error branch neither closes nor deletes the connection
HubWriteNoEvict(c) ==
    /\ hpc = "bcast"
    /\ c \in todo
    /\ peer[c] # "stalled"
    /\ todo' = todo \ {c}
    /\ \/ /\ recv' = [recv EXCEPT ![c] = Deliver(@, payload)]
          /\ UNCHANGED failed
       \/ /\ peer[c] = "gone"
          /\ failed' = failed \cup {c}
          /\ UNCHANGED recv
    /\ UNCHANGED <<clients, conn, peer, hpc, payload, seq, offered, drain, startSet,
                   eventCh>>
    /\ UNCHANGED <<mrest, closed, closedBy>>

\* broadcast whose error branch also leaves the range loop
HubWriteAbort(c) ==
    /\ hpc = "bcast"
    /\ c \in todo
    /\ peer[c] # "stalled"
    /\ \/ /\ recv' = [recv EXCEPT ![c] = Deliver(@, payload)]
          /\ todo' = todo \ {c}
          /\ UNCHANGED <<clients, conn, failed, closedBy>>
       \/ /\ peer[c] = "gone"
          /\ conn' = [conn EXCEPT ![c] = "closed"]
          /\ closedBy' = [closedBy EXCEPT ![c] = Append(@, "broadcast")]
          /\ clients' = clients \ {c}
          /\ failed' = failed \cup {c}
          /\ todo' = {}
          /\ UNCHANGED recv
    /\ UNCHANGED <<peer, hpc, payload, seq, offered, drain, startSet, eventCh>>
    /\ UNCHANGED <<mrest, closed>>

\* one iteration of `for conn := range h.clients`.  WriteMessage has no write
\* deadline.  To a peer that reads it returns nil; to a peer that has left it
\* returns nil (the frame went into the socket buffer) or an error; to a peer
\* that has stopped reading it does not return.
HubWrite(c) ==
    /\ hpc = "bcast"
    /\ c \in todo
    /\ peer[c] # "stalled"
    /\ todo' = todo \ {c}
    /\ \/ /\ recv' = [recv EXCEPT ![c] = Deliver(@, payload)]
          /\ UNCHANGED <<clients, conn, failed, closedBy>>
       \/ /\ peer[c] = "gone"
          /\ conn' = [conn EXCEPT ![c] = "closed"]
          /\ closedBy' = [closedBy EXCEPT ![c] = Append(@, "broadcast")]
          /\ clients' = clients \ {c}
          /\ failed' = failed \cup {c}
          /\ UNCHANGED recv
    /\ UNCHANGED <<peer, hpc, payload, seq, offered, drain, startSet, eventCh>>
    /\ UNCHANGED <<mrest, closed>>

\* the range loop is over: the deferred h.mu.Unlock(), back to the channel
HubUnlock ==
    /\ hpc = "bcast"
    /\ todo = {}
    /\ hpc' = "recv"
    /\ payload' = NoFrame
    /\ startSet' = {}
    /\ failed' = {}
    /\ UNCHANGED <<clients, conn, peer, todo, recv, seq, offered, drain, eventCh>>
    /\ UNCHANGED <<mrest, closed, closedBy>>

\* HandleWS up to its call of addClient: upgrader.Upgrade succeeds.  No lock is
\* taken, so the handshake also completes while broadcast holds h.mu.
Upgrade(c) ==
    /\ conn[c] = "none"
    /\ conn' = [conn EXCEPT ![c] = "upgraded"]
    /\ UNCHANGED <<clients, peer, hpc, payload, todo, recv, seq, offered, drain,
                   startSet, failed, eventCh>>
    /\ UNCHANGED <<mrest, closed, closedBy>>

\* addClient without h.mu.Lock(): the insertion does not wait for broadcast
addClientNoLock(c) ==
    /\ conn[c] = "upgraded"
    /\ conn' = [conn EXCEPT ![c] = "open"]
    /\ clients' = clients \cup {c}
    /\ drain' = [drain EXCEPT ![c] = TRUE]
    /\ UNCHANGED <<peer, hpc, payload, todo, recv, seq, offered, startSet, failed, eventCh>>
    /\ UNCHANGED <<mrest, closed, closedBy>>

\* the rest of HandleWS: addClient gets h.mu, which broadcast holds for a whole
\* fan-out, inserts the connection, and the read goroutine is started
addClient(c) ==
    /\ conn[c] = "upgraded"
    /\ hpc # "bcast"
    /\ conn' = [conn EXCEPT ![c] = "open"]
    /\ clients' = clients \cup {c}
    /\ drain' = [drain EXCEPT ![c] = TRUE]
    /\ UNCHANGED <<peer, hpc, payload, todo, recv, seq, offered, startSet, failed, eventCh>>
    /\ UNCHANGED <<mrest, closed, closedBy>>

\* HandleWS as one step, for a request that finds h.mu free
HandleWS(c) ==
    /\ conn[c] = "none"
    /\ hpc # "bcast"
    /\ conn' = [conn EXCEPT ![c] = "open"]
    /\ clients' = clients \cup {c}
    /\ drain' = [drain EXCEPT ![c] = TRUE]
    /\ UNCHANGED <<peer, hpc, payload, todo, recv, seq, offered, startSet, failed, eventCh>>
    /\ UNCHANGED <<mrest, closed, closedBy>>

\* a removeClient that closes and deletes without `if _, ok := h.clients[conn]`
DrainExitNoCheck(c) ==
    /\ drain[c]
    /\ peer[c] = "gone" \/ conn[c] = "closed"
    /\ hpc # "bcast"
    /\ drain' = [drain EXCEPT ![c] = FALSE]
    /\ conn' = [conn EXCEPT ![c] = "closed"]
    /\ closedBy' = [closedBy EXCEPT ![c] = Append(@, "removeClient")]
    /\ clients' = clients \ {c}
    /\ UNCHANGED <<peer, hpc, payload, todo, recv, seq, offered, startSet, failed, eventCh>>
    /\ UNCHANGED <<mrest, closed>>

\* the drain goroutine: ReadMessage fails, then the deferred removeClient (under h.mu)
DrainExit(c) ==
    /\ drain[c]
    /\ peer[c] = "gone" \/ conn[c] = "closed"
    /\ hpc # "bcast"
    /\ drain' = [drain EXCEPT ![c] = FALSE]
    /\ IF c \in clients
       THEN /\ conn' = [conn EXCEPT ![c] = "closed"]
            /\ closedBy' = [closedBy EXCEPT ![c] = Append(@, "removeClient")]
            /\ clients' = clients \ {c}
       ELSE UNCHANGED <<conn, clients, closedBy>>
    /\ UNCHANGED <<peer, hpc, payload, todo, recv, seq, offered, startSet, failed, eventCh>>
    /\ UNCHANGED <<mrest, closed>>

\* the browser behind a connection stops reading, resumes, or goes away
PeerStall(c) ==
    /\ conn[c] = "open"
    /\ peer[c] = "ok"
    /\ peer' = [peer EXCEPT ![c] = "stalled"]
    /\ UNCHANGED <<clients, conn, hpc, payload, todo, recv, seq, offered, drain,
                   startSet, failed, eventCh>>
    /\ UNCHANGED <<mrest, closed, closedBy>>

PeerResume(c) ==
    /\ peer[c] = "stalled"
    /\ peer' = [peer EXCEPT ![c] = "ok"]
    /\ UNCHANGED <<clients, conn, hpc, payload, todo, recv, seq, offered, drain,
                   startSet, failed, eventCh>>
    /\ UNCHANGED <<mrest, closed, closedBy>>

PeerGone(c) ==
    /\ conn[c] # "none"
    /\ peer[c] # "gone"
    /\ peer' = [peer EXCEPT ![c] = "gone"]
    /\ UNCHANGED <<clients, conn, hpc, payload, todo, recv, seq, offered, drain,
                   startSet, failed, eventCh>>
    /\ UNCHANGED <<mrest, closed, closedBy>>

\* the producer of the hub-level model: `eventCh <- ev`
HubEvents == {[path |-> FileA, off |-> 0, line |-> <<"{", "}">>, isSubagent |-> b] :
                b \in BOOLEAN}

Offer(ev) ==
    /\ ~closed
    /\ offered < MaxEvents
    /\ Len(eventCh) < ChanCap
    /\ offered' = offered + 1
    /\ eventCh' = Append(eventCh, ev)
    /\ UNCHANGED <<clients, conn, peer, hpc, payload, todo, recv, seq, drain,
                   startSet, failed>>
    /\ UNCHANGED <<mrest, closed, closedBy>>

\* the owner of the channel closes it when no producer will send again
CloseCh ==
    /\ ~closed
    /\ closed' = TRUE
    /\ UNCHANGED <<clients, conn, peer, hpc, payload, todo, recv, seq, offered, drain,
                   startSet, failed, eventCh>>
    /\ UNCHANGED <<mrest, closedBy>>

(***************************************************************************)
(* events.ParseLine on one JSON text (src/internal/events/event.go).       *)
(*                                                                         *)
(* A JSON text is a record with a field form: "malformed", "null", or      *)
(* "object" with the members type, cwd, msg, data.  type is a name ("" if  *)
(* the member is missing) and cwd a sequence of characters.  msg has the   *)
(* form "absent", "nocontent", "string" (content is a JSON string and no   *)
(* array) or "array" with content, a sequence of elements                  *)
(*   [type, name, key, str, val, is_error]                                 *)
(* where key is the one member of the element's input ("" for none), val   *)
(* its value and str whether that is a JSON string.  data has the form     *)
(* "absent" or "object" with type and message, message being "absent",     *)
(* "null", "empty" (the JSON string "") or "object".  A string value is    *)
(* the sequence of its UTF-8 bytes, over "a" (one byte) and "C3" "A9"      *)
(* (the two bytes of U+00E9).                                              *)
(***************************************************************************)
\* the maxLen every caller passes to truncate
DetailMax == 80

toolCategory ==
    [Read |-> "read", Grep |-> "read", Glob |-> "read",
     Edit |-> "write", Write |-> "write", NotebookEdit |-> "write",
     Bash |-> "action", WebFetch |-> "network", WebSearch |-> "network",
     Task |-> "meta", EnterPlanMode |-> "meta", ExitPlanMode |-> "meta",
     Skill |-> "meta", TodoWrite |-> "meta", TaskCreate |-> "meta",
     TaskUpdate |-> "meta", AskUserQuestion |-> "warn"]

toolDetailKey ==
    [Read |-> "file_path", Edit |-> "file_path", Write |-> "file_path",
     NotebookEdit |-> "notebook_path", Grep |-> "pattern", Glob |-> "pattern",
     Bash |-> "command", WebFetch |-> "url", WebSearch |-> "query",
     Task |-> "description"]

skippedTypes == {"file-history-snapshot"}

\* []rune(s): the Unicode scalars of a byte string; a byte that starts no
\* valid encoding decodes to U+FFFD.  The string is decoded in two halves cut
\* between two encodings.
RECURSIVE Runes(_)
Runes(s) ==
    IF s = <<>> THEN <<>>
    ELSE IF s = <<"C3", "A9">> THEN <<"U+00E9">>
    ELSE IF Len(s) = 1 THEN (IF s[1] = "a" THEN <<"a">> ELSE <<"U+FFFD">>)
    ELSE LET half == Len(s) \div 2
             cut == IF s[half] = "C3" /\ s[half + 1] = "A9" THEN half + 1 ELSE half
         IN  Runes(SubSeq(s, 1, cut)) \o Runes(SubSeq(s, cut + 1, Len(s)))

\* string(runes): the UTF-8 encoding of a sequence of scalars
RECURSIVE Utf8(_)
Utf8(runes) ==
    IF runes = <<>> THEN <<>>
    ELSE IF Len(runes) = 1
    THEN (CASE runes[1] = "a" -> <<"a">>
            [] runes[1] = "U+00E9" -> <<"C3", "A9">>
            [] OTHER -> <<"EF", "BF", "BD">>)
    ELSE LET half == Len(runes) \div 2
         IN  Utf8(SubSeq(runes, 1, half)) \o Utf8(SubSeq(runes, half + 1, Len(runes)))

\* a truncate that counts and cuts bytes: s[:maxLen]
truncateBytes(s, maxLen) ==
    IF Len(s) <= maxLen THEN s ELSE SubSeq(s, 1, maxLen)

\* truncate (event.go:295-301)
truncate(s, maxLen) ==
    LET runes == Runes(s)
    IN  IF Len(runes) <= maxLen THEN s ELSE Utf8(SubSeq(runes, 1, maxLen))

\* a session name taken after the last "/" of cwd as it stands
SessionNameNoTrim(cwd) ==
    LET slashes == {i \in 1..Len(cwd) : cwd[i] = "/"}
        last == IF slashes = {} THEN 0
                ELSE CHOOSE i \in slashes : \A j \in slashes : j <= i
    IN  SubSeq(cwd, last + 1, Len(cwd))

\* SessionNameFromCwd (event.go:193-202), with strings.TrimRight(cwd, "/")
\* and path.Base of a non-empty string
SessionNameFromCwd(cwd) ==
    LET RECURSIVE TrimSlash(_)
        TrimSlash(c) == IF c # <<>> /\ c[Len(c)] = "/"
                        THEN TrimSlash(SubSeq(c, 1, Len(c) - 1)) ELSE c
        pathBase(c) ==
            LET t == TrimSlash(c)
                slashes == {i \in 1..Len(t) : t[i] = "/"}
                last == IF slashes = {} THEN 0
                        ELSE CHOOSE i \in slashes : \A j \in slashes : j <= i
            IN  IF c = <<>> THEN <<".">>
                ELSE IF t = <<>> THEN <<"/">>
                ELSE SubSeq(t, last + 1, Len(t))
        cleaned == TrimSlash(cwd)
    IN  IF cleaned = <<>> THEN cwd ELSE pathBase(cleaned)

\* json.Unmarshal(line, &raw) into rawLine (event.go:56-86).  A missing member
\* leaves the zero value: "" for a string, nil for *rawMessage,
\* *rawProgressData and []rawContent.  A json.RawMessage member is nil only
\* when the member is missing: it receives the bytes of whatever value is
\* there, those of null and of "" included.
Unmarshal(text) ==
    LET zero == [Type |-> "", Cwd |-> <<>>,
                 Message |-> [nil |-> TRUE, Content |-> <<>>],
                 Data |-> [nil |-> TRUE, Type |-> <<>>, MessageNil |-> TRUE]]
    IN  IF text.form = "malformed" THEN [err |-> TRUE, raw |-> zero]
        ELSE IF text.form = "null" THEN [err |-> FALSE, raw |-> zero]
        ELSE IF text.msg.form = "string" THEN [err |-> TRUE, raw |-> zero]
        ELSE [err |-> FALSE,
              raw |-> [Type |-> text.type,
                       Cwd |-> text.cwd,
                       Message |->
                           [nil |-> text.msg.form = "absent",
                            Content |-> IF text.msg.form = "array"
                                        THEN text.msg.content ELSE <<>>],
                       Data |->
                           IF text.data.form = "absent" THEN zero.Data
                           ELSE [nil |-> FALSE,
                                 Type |-> text.data.type,
                                 MessageNil |-> text.data.message = "absent"]]]

\* classifyToolUse (event.go:242-265)
classifyToolUse(ev, block) ==
    LET cat == IF block.name \in DOMAIN toolCategory
               THEN toolCategory[block.name] ELSE "meta"
        detail == IF /\ block.name \in DOMAIN toolDetailKey
                     /\ block.key = toolDetailKey[block.name]
                     /\ block.str
                  THEN truncate(block.val, DetailMax) ELSE ev.detail
    IN  [ev EXCEPT !.event = block.name, !.category = cat, !.detail = detail]

\* a parseAssistant that looks at the first content element only
parseAssistantFirstOnly(ev, msg) ==
    IF msg.nil \/ Len(msg.Content) = 0
    THEN [ev EXCEPT !.category = "ambient", !.event = "assistant"]
    ELSE IF msg.Content[1].type = "tool_use"
         THEN classifyToolUse(ev, msg.Content[1])
         ELSE [ev EXCEPT !.category = "ambient", !.event = msg.Content[1].type]

\* parseAssistant (event.go:209-239)
parseAssistant(ev, msg) ==
    IF msg.nil \/ Len(msg.Content) = 0
    THEN [ev EXCEPT !.category = "ambient", !.event = "assistant"]
    ELSE LET uses == {i \in DOMAIN msg.Content : msg.Content[i].type = "tool_use"}
         IN  IF uses # {}
             THEN classifyToolUse(ev, msg.Content[CHOOSE i \in uses :
                                                     \A j \in uses : i <= j])
             ELSE [ev EXCEPT !.category = "ambient", !.event = msg.Content[1].type]

\* a parseUser that looks at the first content element only
parseUserFirstOnly(ev, msg) ==
    IF msg.nil \/ Len(msg.Content) = 0
    THEN [ev EXCEPT !.category = "warn", !.event = "user_input"]
    ELSE IF msg.Content[1].type = "tool_result"
         THEN [ev EXCEPT !.event = "tool_result",
                         !.category = IF msg.Content[1].is_error THEN "error"
                                      ELSE "success"]
         ELSE [ev EXCEPT !.category = "warn", !.event = "user_input"]

\* parseUser (event.go:268-292)
parseUser(ev, msg) ==
    IF msg.nil \/ Len(msg.Content) = 0
    THEN [ev EXCEPT !.category = "warn", !.event = "user_input"]
    ELSE LET res == {i \in DOMAIN msg.Content : msg.Content[i].type = "tool_result"}
         IN  IF res # {}
             THEN LET block == msg.Content[CHOOSE i \in res : \A j \in res : i <= j]
                  IN  [ev EXCEPT !.event = "tool_result",
                                 !.category = IF block.is_error THEN "error"
                                              ELSE "success"]
             ELSE [ev EXCEPT !.category = "warn", !.event = "user_input"]

\* a ParseLine whose switch drops the types it does not know
ParseTextDropUnknown(text) ==
    LET u == Unmarshal(text)
        raw == u.raw
        ev == [kind |-> "event", session |-> SessionNameFromCwd(raw.Cwd),
               category |-> "", event |-> "", detail |-> <<>>]
    IN  IF u.err THEN [kind |-> "error"]
        ELSE IF raw.Type \in skippedTypes THEN [kind |-> "skip"]
        ELSE CASE raw.Type = "assistant" -> parseAssistant(ev, raw.Message)
               [] raw.Type = "user" -> parseUser(ev, raw.Message)
               [] raw.Type = "progress" ->
                    IF ~raw.Data.nil /\ ~raw.Data.MessageNil
                    THEN [kind |-> "skip"]
                    ELSE [ev EXCEPT
                            !.category = "meta",
                            !.event = "progress",
                            !.detail = IF ~raw.Data.nil /\ raw.Data.Type # <<>>
                                       THEN truncate(raw.Data.Type, DetailMax)
                                       ELSE <<>>]
               [] raw.Type = "system" ->
                    [ev EXCEPT !.category = "meta", !.event = "system"]
               [] OTHER -> [kind |-> "skip"]

\* ParseLine (event.go:139-189) on a JSON text: an error, ErrSkipEvent, or
\* the event
ParseText(text) ==
    LET u == Unmarshal(text)
        raw == u.raw
        ev == [kind |-> "event", session |-> SessionNameFromCwd(raw.Cwd),
               category |-> "", event |-> "", detail |-> <<>>]
    IN  IF u.err THEN [kind |-> "error"]
        ELSE IF raw.Type \in skippedTypes THEN [kind |-> "skip"]
        ELSE CASE raw.Type = "assistant" -> parseAssistant(ev, raw.Message)
               [] raw.Type = "user" -> parseUser(ev, raw.Message)
               [] raw.Type = "progress" ->
                    IF ~raw.Data.nil /\ ~raw.Data.MessageNil
                    THEN [kind |-> "skip"]
                    ELSE [ev EXCEPT
                            !.category = "meta",
                            !.event = "progress",
                            !.detail = IF ~raw.Data.nil /\ raw.Data.Type # <<>>
                                       THEN truncate(raw.Data.Type, DetailMax)
                                       ELSE <<>>]
               [] raw.Type = "system" ->
                    [ev EXCEPT !.category = "meta", !.event = "system"]
               [] OTHER ->
                    [ev EXCEPT !.category = "meta", !.event = raw.Type]

\* every watcher.Add succeeds; no call of ParseLine on its own yet, no config
\* file, no request served
AuxInit ==
    /\ addErr = {}
    /\ rawIn = [form |-> "none"]
    /\ parsed = [kind |-> "none"]
    /\ cfgFile = [form |-> "absent"]
    /\ reply = [status |-> 0]

HubInit ==
    /\ closed = FALSE
    /\ closedBy = [c \in Conns |-> <<>>]
    /\ clients = {}
    /\ conn = [c \in Conns |-> "none"]
    /\ peer = [c \in Conns |-> "ok"]
    /\ hpc = "recv"
    /\ payload = NoFrame
    /\ todo = {}
    /\ recv = [c \in Conns |-> <<>>]
    /\ seq = 0
    /\ offered = 0
    /\ drain = [c \in Conns |-> FALSE]
    /\ startSet = {}
    /\ failed = {}

(***************************************************************************)
(* Specifications.                                                         *)
(***************************************************************************)
Watcher == Start \/ HandleEvent \/ StartReturn

Tailer(f) == TailOpen(f) \/ TailRead(f) \/ TailWake(f) \/ TailSend(f)

TailFault(f) == TailOpenFail(f) \/ TailReadFail(f)

Hub == HubTake \/ (\E c \in Conns : HubWrite(c)) \/ HubUnlock

Gateway == \E c \in Conns : Upgrade(c) \/ addClient(c) \/ DrainExit(c)

Peers == \E c \in Conns : PeerStall(c) \/ PeerResume(c) \/ PeerGone(c)

\* Spec: the Watcher over the directory tree, with shutdown
Next ==
    \/ WatchEnv
    \/ Watcher
    \/ Stop
    \/ \E f \in FileUniverse : Tailer(f) \/ TailDone(f)
    \/ Recv

Init == MgrInit(MaxWrites, 0, {<<>>, EventLine}) /\ HubInit /\ AuxInit

Spec == Init /\ [][Next]_vars

\* FaultSpec: Spec with I/O failures of the Tailer
FaultNext == Next \/ \E f \in FileUniverse : TailFault(f)

FaultInit == MgrInit(MaxWrites, MaxFaults, {<<>>, EventLine}) /\ HubInit /\ AuxInit

FaultSpec == FaultInit /\ [][FaultNext]_vars

\* ShutdownSpec: one followed file and one caller of Stop, with the goroutines
\* of the Manager scheduled: Start and every Tailer take a step when they can, and
\* the select of the Start loop does not pass over the closed m.done for ever.
\* Nothing obliges the consumer of the ingress channel to receive.
ShutdownEnv == AppendFile(FileA, EventLine)

ShutdownNext ==
    \/ ShutdownEnv
    \/ Watcher
    \/ StopSelect("s1")
    \/ StopClose("s1")
    \/ Tailer(FileA)
    \/ TailDone(FileA)
    \/ Recv

ShutdownSpec ==
    /\ Init
    /\ [][ShutdownNext]_vars
    /\ WF_vars(Start)
    /\ WF_vars(StartReturn)
    /\ WF_vars(Tailer(FileA) \/ TailDone(FileA))

\* RoleSpec: a project directory that has the name of the root comes into
\* existence, and in it a session-id directory with its subagents directory and
\* a subagent log; whole records are appended
RoleEnv ==
    \/ \E d \in {ProjR, Dir(Dir(FileG)), Dir(FileG)} : Mkdir(d)
    \/ CreateFile(FileG)
    \/ \E f \in {FileA, FileG} : AppendFile(f, EventLine)

RoleNext ==
    \/ RoleEnv
    \/ Start
    \/ HandleEvent
    \/ \E f \in FileUniverse : Tailer(f)
    \/ Recv

RoleSpec == Init /\ [][RoleNext]_vars

\* CreateSpec: directories and logs that come into existence while the Watcher
\* runs: a second project with its session log, and a session-id directory,
\* its subagents directory and a subagent log; whole records are appended
CreateEnv ==
    \/ \E d \in {ProjQ, SessP, SubP} : Mkdir(d)
    \/ \E f \in {FileC, FileS} : CreateFile(f)
    \/ \E f \in {FileC, FileS} : AppendFile(f, EventLine)

CreateNext ==
    \/ CreateEnv
    \/ Start
    \/ HandleEvent
    \/ \E f \in FileUniverse : Tailer(f)
    \/ Recv

CreateSpec == Init /\ [][CreateNext]_vars

\* WatchFaultSpec: CreateSpec in which watcher.Add fails for one directory, or
\* for none, and the watcher reports errors
WatchFaultNext ==
    \/ CreateEnv
    \/ Start
    \/ HandleEvent
    \/ WatcherError
    \/ \E f \in FileUniverse : Tailer(f)
    \/ Recv

WatchFaultInit ==
    /\ MgrInit(MaxWrites, MaxFaults, {<<>>})
    /\ HubInit
    /\ addErr \in {{}} \cup {{d} : d \in {watchPath, ProjP, ProjQ, SessP, SubP}}
    /\ rawIn = [form |-> "none"]
    /\ parsed = [kind |-> "none"]
    /\ cfgFile = [form |-> "absent"]
    /\ reply = [status |-> 0]

WatchFaultSpec == WatchFaultInit /\ [][WatchFaultNext]_vars

\* DepthSpec: .jsonl files that appear outside the layout, directly in the
\* root and directly in a session-id directory, and are written to
DepthEnv ==
    \/ Mkdir(SessP)
    \/ \E f \in {FileR, FileD} : CreateFile(f)
    \/ \E f \in {FileR, FileD} : AppendFile(f, EventLine)

DepthNext ==
    \/ DepthEnv
    \/ Start
    \/ HandleEvent
    \/ \E f \in FileUniverse : Tailer(f)
    \/ Recv

DepthSpec == Init /\ [][DepthNext]_vars

\* IngressSpec: one followed file to which whole records are appended faster
\* than the channel is emptied, one caller of Stop; the Tailer and the consumer
\* of the channel are scheduled
IngressNext ==
    \/ AppendFile(FileA, EventLine)
    \/ Watcher
    \/ StopSelect("s1")
    \/ StopClose("s1")
    \/ Tailer(FileA)
    \/ TailDone(FileA)
    \/ Recv

IngressInit == MgrInit(MaxRecords, 0, {<<>>}) /\ HubInit /\ AuxInit

IngressSpec ==
    /\ IngressInit
    /\ [][IngressNext]_vars
    /\ WF_vars(Tailer(FileA) \/ TailDone(FileA))
    /\ WF_vars(Recv)

\* OpenFaultSpec: the followed file receives whole records while os.Open or
\* f.Seek of its Tailer may return an error
OpenFaultNext ==
    \/ AppendFile(FileA, EventLine)
    \/ Start
    \/ HandleEvent
    \/ Tailer(FileA)
    \/ TailOpenFail(FileA)
    \/ Recv

OpenFaultInit == MgrInit(MaxAppends, MaxFaults, {<<>>, EventLine}) /\ HubInit /\ AuxInit

OpenFaultSpec == OpenFaultInit /\ [][OpenFaultNext]_vars

\* SkipSpec: the followed file receives whole lines, some of which ParseLine
\* answers with ErrSkipEvent or with an error
SkipEnv == \E line \in {EventLine, SkipLine, ErrorLine} : AppendFile(FileA, line)

SkipNext ==
    \/ SkipEnv
    \/ Start
    \/ HandleEvent
    \/ Tailer(FileA)
    \/ Recv

SkipInit == MgrInit(MaxAppends, 0, {<<>>, SkipLine, ErrorLine}) /\ HubInit /\ AuxInit

SkipSpec == SkipInit /\ [][SkipNext]_vars

\* the string values from which a detail is taken: n times "a", n times
\* U+00E9, and U+00E9 followed by n - 1 times "a"
Strs ==
    UNION {{[i \in 1..n |-> "a"],
            Utf8([i \in 1..n |-> "U+00E9"]),
            Utf8([i \in 1..n |-> IF i = 1 THEN "U+00E9" ELSE "a"])} : n \in 0..MaxScalars}

Cwds == UNION {[1..n -> {"/", "a", "b"}] : n \in 0..MaxCwd}

\* the JSON texts given to ParseLine
Texts ==
    LET noMsg == [form |-> "absent"]
        noData == [form |-> "absent"]
        home == <<"/", "a">>
        obj(t, c, m, d) == [form |-> "object", type |-> t, cwd |-> c, msg |-> m, data |-> d]
        el(t, n, k, b, v, e) ==
            [type |-> t, name |-> n, key |-> k, str |-> b, val |-> v, is_error |-> e]
        other(t) == el(t, "", "", FALSE, <<>>, FALSE)
        use(n, k, b, v) == el("tool_use", n, k, b, v, FALSE)
        names == DOMAIN toolCategory \cup {"Mystery", ""}
        keys == {toolDetailKey[n] : n \in DOMAIN toolDetailKey} \cup {"", "other"}
        mixed == {other("text"), other("thinking"), other("image"),
                  el("tool_result", "", "", FALSE, <<>>, TRUE),
                  el("tool_result", "", "", FALSE, <<>>, FALSE),
                  use("Edit", "file_path", TRUE, <<"a">>),
                  use("Bash", "command", TRUE, <<"a", "a">>),
                  use("Mystery", "", FALSE, <<>>)}
        arrays == UNION {[1..n -> mixed] : n \in 0..MaxBlocks}
        msgs == {noMsg, [form |-> "nocontent"], [form |-> "string"]}
                  \cup {[form |-> "array", content |-> a] : a \in arrays}
        one(b) == [form |-> "array", content |-> <<b>>]
        types == {"assistant", "user", "progress", "system",
                  "file-history-snapshot", "summary", ""}
    IN  {[form |-> "malformed"], [form |-> "null"]}
        \cup {obj(t, c, noMsg, noData) : t \in types, c \in Cwds}
        \cup {obj(t, home, m, noData) : t \in {"assistant", "user"}, m \in msgs}
        \cup {obj("assistant", home, one(use(n, k, b, <<"a">>)), noData) :
                 n \in names, k \in keys, b \in BOOLEAN}
        \cup {obj("assistant", home, one(use(n, "file_path", TRUE, v)), noData) :
                 n \in {"Read", "AskUserQuestion"}, v \in Strs}
        \cup {obj("progress", home, noMsg,
                  [form |-> "object", type |-> v, message |-> "absent"]) : v \in Strs}
        \cup {obj("progress", home, noMsg,
                  [form |-> "object", type |-> v, message |-> m]) :
                 v \in {<<>>, <<"a">>}, m \in {"absent", "null", "empty", "object"}}

\* the Tailer's call events.ParseLine([]byte(trimmed)) (part_003:327)
Classify ==
    /\ parsed.kind = "none"
    /\ parsed' = ParseText(rawIn.text)
    /\ UNCHANGED <<mvars, hvars, rawIn, cfgFile, reply>>

\* ClassifySpec: ParseLine applied to one line of one followed file
ClassifyInit ==
    /\ MgrInit(0, 0, {<<>>})
    /\ HubInit
    /\ addErr = {}
    /\ rawIn \in {[path |-> p, text |-> t] : p \in {FileA, FileS}, t \in Texts}
    /\ parsed = [kind |-> "none"]
    /\ cfgFile = [form |-> "absent"]
    /\ reply = [status |-> 0]

ClassifySpec == ClassifyInit /\ [][Classify]_vars

(***************************************************************************)
(* server.ConfigHandler (src/internal/server/config_handler.go) over       *)
(* config.Load and config.Save (src/internal/config/config.go).  Of the    *)
(* Config the fields port, autoOpen and activePack are kept.  A request    *)
(* body is a JSON object: has is the set of its member names, and "theme"  *)
(* is a name Config does not have.                                         *)
(***************************************************************************)
\* config.Default (config.go:28-39)
Default == [port |-> 3333, autoOpen |-> TRUE, activePack |-> "default"]

\* config.Load (config.go:57-85): the defaults when there is no file, else the
\* file's members over the defaults; Save writes every field
Load == IF cfgFile.form = "absent" THEN Default ELSE cfgFile.cfg

Bodies ==
    [has : SUBSET {"port", "autoOpen", "activePack", "theme"},
     port : {3333, 8080}, autoOpen : BOOLEAN, activePack : {"default", "lofi"}]

\* HandleGet (config_handler.go:25-37)
HandleGet ==
    /\ reply' = [status |-> 200, method |-> "GET", cfg |-> Load, req |-> {}]
    /\ UNCHANGED <<mvars, hvars, rawIn, parsed, cfgFile>>

\* HandleUpdate (config_handler.go:42-67): Load, Decode with
\* DisallowUnknownFields over the loaded Config, Save, respond.  save is
\* whether MkdirAll and WriteFile of config.Save succeed.
HandleUpdate(body, save) ==
    LET cfg == [f \in DOMAIN Default |-> IF f \in body.has THEN body[f] ELSE Load[f]]
    IN  IF ~(body.has \subseteq DOMAIN Default)
        THEN /\ reply' = [status |-> 400, method |-> "PUT", cfg |-> Load, req |-> body]
             /\ UNCHANGED <<mvars, hvars, rawIn, parsed, cfgFile>>
        ELSE IF ~save
        THEN /\ reply' = [status |-> 500, method |-> "PUT", cfg |-> Load, req |-> body]
             /\ UNCHANGED <<mvars, hvars, rawIn, parsed, cfgFile>>
        ELSE /\ cfgFile' = [form |-> "file", cfg |-> cfg]
             /\ reply' = [status |-> 200, method |-> "PUT", cfg |-> cfg, req |-> body]
             /\ UNCHANGED <<mvars, hvars, rawIn, parsed>>

\* the directory given to NewPacksHandler, as the elements of its path; an
\* element is a sequence of characters
packsDir == << <<"d">>, <<"p">> >>

\* the values r.PathValue("name") can have: a path element of the request,
\* unescaped
PackNames == UNION {[1..n -> {"a", ".", "/", "\\"}] : n \in 0..MaxName}

\* filepath.Clean on the elements of an absolute path: "." and empty elements
\* are dropped, ".." removes the element before it
RECURSIVE Clean(_, _)
Clean(done_, rest) ==
    IF rest = <<>> THEN done_
    ELSE IF Head(rest) \in {<<>>, <<".">>} THEN Clean(done_, Tail(rest))
    ELSE IF Head(rest) = <<".", ".">>
         THEN Clean(SubSeq(done_, 1, Len(done_) - 1), Tail(rest))
         ELSE Clean(Append(done_, Head(rest)), Tail(rest))

\* HandleManifest (packs_handler.go:45-73) with packs.LoadPack: the name is
\* refused when empty or when it has a '/' or a '\'; LoadPack reads
\* filepath.Join(packsDir + "/" + name, "pack.json").  loads is whether that
\* file exists and holds a manifest.
HandleManifest(name, loads) ==
    LET manifestPath == Clean(<<>>, packsDir \o <<name, <<"pack.json">>>>)
    IN  /\ reply' =
              IF name = <<>> \/ \E i \in DOMAIN name : name[i] \in {"/", "\\"}
              THEN [status |-> 400, method |-> "MANIFEST", name |-> name, read |-> <<>>]
              ELSE [status |-> IF loads THEN 200 ELSE 404, method |-> "MANIFEST",
                    name |-> name, read |-> manifestPath]
        /\ UNCHANGED <<mvars, hvars, rawIn, parsed, cfgFile>>

\* ConfigSpec: the requests to /api/config and to /api/packs/{name}/manifest,
\* served one after the other
ConfigNext ==
    \/ HandleGet
    \/ \E body \in Bodies, save \in BOOLEAN : HandleUpdate(body, save)
    \/ \E name \in PackNames, loads \in BOOLEAN : HandleManifest(name, loads)

\* TailSpec: one Tailer following one file that is written in pieces
TailNext ==
    \/ TailEnv
    \/ Start
    \/ HandleEvent
    \/ Tailer(FileA)
    \/ Recv

TailInit == MgrInit(MaxAppends, 0, InitContents) /\ HubInit /\ AuxInit

TailSpec == TailInit /\ [][TailNext]_vars

\* HubSpec: the Hub, the Gateway and the browsers, fed by a producer
HubNext ==
    \/ \E ev \in HubEvents : Offer(ev)
    \/ Hub
    \/ Gateway
    \/ Peers

HubOnlyInit == MgrInit(0, 0, {<<>>}) /\ HubInit /\ AuxInit

ConfigSpec == HubOnlyInit /\ [][ConfigNext]_vars

HubSpec == HubOnlyInit /\ [][HubNext]_vars

\* HubLiveSpec: HubSpec in which the Hub goroutine takes a step if it can take
\* one again and again; nothing obliges a browser to read
HubLiveSpec == HubOnlyInit /\ [][HubNext]_vars /\ SF_vars(Hub)

\* HubDrainSpec: the Hub with an owner that closes the channel, browsers that
\* come and go but read while they are there, and the Hub goroutine scheduled
HubDrainNext ==
    \/ \E ev \in HubEvents : Offer(ev)
    \/ CloseCh
    \/ Hub
    \/ Gateway
    \/ \E c \in Conns : PeerGone(c)

HubDrainSpec == HubOnlyInit /\ [][HubDrainNext]_vars /\ WF_vars(Hub)

\* PipeStopSpec: the Manager of ShutdownSpec with Hub.Run as the consumer of
\* the channel and one browser, every goroutine scheduled.  As in the program,
\* nothing closes the channel.
PipeStopNext ==
    \/ ShutdownEnv
    \/ Watcher
    \/ StopSelect("s1")
    \/ StopClose("s1")
    \/ Tailer(FileA)
    \/ TailDone(FileA)
    \/ Hub
    \/ HandleWS("c1")

PipeStopSpec ==
    /\ Init
    /\ [][PipeStopNext]_vars
    /\ WF_vars(Start)
    /\ WF_vars(StartReturn)
    /\ WF_vars(Tailer(FileA) \/ TailDone(FileA))
    /\ WF_vars(Hub)

\* PipeSpec: the whole pipeline as main wires it: one followed file, the
\* Manager sending on srv.EventCh(), Hub.Run receiving from it, one browser
\* that connects before the log is written and keeps reading
PipeEnv == "c1" \in clients /\ TailEnv

PipeNext ==
    \/ PipeEnv
    \/ Start
    \/ HandleEvent
    \/ Tailer(FileA)
    \/ Hub
    \/ HandleWS("c1")

PipeInit == MgrInit(MaxAppends, 0, InitContents) /\ HubInit /\ AuxInit

PipeSpec == PipeInit /\ [][PipeNext]_vars


(***************************************************************************)
(* Properties.                                                             *)
(***************************************************************************)
\* C1: at no instant are there two live tail goroutines for one path; a
\* startTailing call for a path that has a registry entry starts none.
C1_OneTailerPerPath == \A f \in FileUniverse : live[f] <= 1

\* C1 witness: startTailing has been called for a path that had an entry, and
\* that path has its one Tailer.
C1_Witness == \E f \in lastStart : live[f] = 1 /\ f \in DOMAIN tailing

\* C2: no line of a file is enqueued on the ingress channel more than once.
C2_NoDuplicateEnqueue ==
    \A i, j \in DOMAIN enq :
        (enq[i].path = enq[j].path /\ enq[i].off = enq[j].off) => i = j

\* the offsets at which a line of data starts
LineStarts(data) == {o \in 0..(Len(data) - 1) : o = 0 \/ data[o] = NL}

\* the line of data that starts at offset o is terminated by a newline
Complete(data, o) == \E k \in (o + 1)..Len(data) : data[k] = NL

\* the bytes of the line that starts at offset o, without the terminator
LineAt(data, o) ==
    LET k == CHOOSE k \in (o + 1)..Len(data) :
                 data[k] = NL /\ \A j \in (o + 1)..(k - 1) : data[j] # NL
    IN  SubSeq(data, o + 1, k - 1)

\* C4: every byte string passed to the Classifier is one whole line of its
\* file, from byte 0 or the byte after a newline up to the next newline, and no
\* line is classified twice.
C4_WholeLinesOnly ==
    /\ \A i \in DOMAIN classified :
          LET r == classified[i]
              data == content[r.path]
          IN  /\ r.off \in LineStarts(data)
              /\ Complete(data, r.off)
              /\ r.bytes = TrimRight(LineAt(data, r.off))
    /\ \A i, j \in DOMAIN classified :
          (classified[i].path = classified[j].path
             /\ classified[i].off = classified[j].off) => i = j

\* C5: events of one file are enqueued in the order of their lines.
C5_PerFileOrder ==
    \A i, j \in DOMAIN enq :
        (i < j /\ enq[i].path = enq[j].path) => enq[i].off <= enq[j].off

\* a Tailer is parked at EOF with no wake-up pending or on its way
Quiescent(f) ==
    /\ ~done
    /\ live[f] = 1
    /\ f \in DOMAIN tailing
    /\ tl[f].pc = "wait"
    /\ tailing[f] = 0
    /\ \A k \in DOMAIN fsq : fsq[k].name # f

\* C3: every complete line appended after the start position of the Tailer of
\* a followed file, and announced by a Write notification, is passed to the
\* Classifier and, when it yields an event, enqueued.  Stated for the states in
\* which nothing is left to wake the Tailer: by then every such line is through.
C3_NoLineLeftBehind ==
    \A f \in FileUniverse :
        Quiescent(f) =>
            \A o \in LineStarts(content[f]) :
                (o >= tl[f].start /\ Complete(content[f], o)
                   /\ TrimRight(LineAt(content[f], o)) # <<>>) =>
                    /\ \E i \in DOMAIN classified :
                          classified[i].path = f /\ classified[i].off = o
                    /\ ParseLine(TrimRight(LineAt(content[f], o))) = "event" =>
                          \E i \in DOMAIN enq : enq[i].path = f /\ enq[i].off = o


\* the frames of the event numbered n among those written to connection c
FramesOf(c, n) == {k \in DOMAIN recv[c] : recv[c][k].seq = n}

\* the range loop of broadcast has visited every connection
FanOutOver == hpc = "bcast" /\ todo = {}

\* C7: for every event the Hub takes and every connection in h.clients when its
\* fan-out starts, the connection gets exactly one frame of the event or is
\* removed from h.clients during the fan-out; it never gets two frames of one
\* event and is never passed over.
C7_OneFrameOrEvicted ==
    /\ \A c \in Conns : \A n \in 1..seq : Cardinality(FramesOf(c, n)) <= 1
    /\ hpc = "bcast" =>
          \A c \in startSet \ todo :
              \/ Cardinality(FramesOf(c, payload.seq)) = 1 /\ c \in clients
              \/ FramesOf(c, payload.seq) = {} /\ c \notin clients
    /\ hpc = "bcast" =>
          \A c \in Conns \ startSet : FramesOf(c, payload.seq) = {}

\* C7 witness: a fan-out other than the first is over, one connection got the
\* frame and another was evicted.
C7_Witness ==
    /\ FanOutOver
    /\ payload.seq >= 2
    /\ \E c \in startSet : Cardinality(FramesOf(c, payload.seq)) = 1
    /\ \E c \in startSet : c \notin clients

\* C8: when a write fails during a fan-out the connection is closed and
\* removed from h.clients, every other connection of the set has the frame when
\* the fan-out is over and is still in the set; two connections of which one
\* fails leave a set of exactly one.
C8_FailureIsolated ==
    /\ hpc = "bcast" =>
          \A c \in failed : conn[c] = "closed" /\ c \notin clients
    /\ FanOutOver =>
          /\ \A c \in startSet \ failed :
                /\ c \in clients
                /\ conn[c] = "open"
                /\ recv[c] # <<>>
                /\ recv[c][Len(recv[c])] = payload
          /\ (Cardinality(startSet) = 2 /\ Cardinality(failed) = 1) =>
                Cardinality(clients) = 1

\* C8 witness: a fan-out over two connections is over and exactly one write
\* failed.
C8_Witness ==
    /\ FanOutOver
    /\ Cardinality(startSet) = 2
    /\ Cardinality(failed) = 1
    /\ \E c \in startSet \ failed : recv[c][Len(recv[c])] = payload

\* C10: every connection is written the frames in the order in which Hub.Run
\* took their events from the channel.
C10_FramesInTakeOrder ==
    \A c \in Conns :
        \A i, j \in DOMAIN recv[c] : i < j => recv[c][i].seq < recv[c][j].seq

\* C10 witness: a connection has been written the frames of two events.
C10_Witness == \E c \in Conns : Len(recv[c]) >= 2 /\ c \in clients

\* C9: a browser that does not read does not hold up the broadcast: every
\* fan-out that starts is over after finitely many steps of the Hub, so that
\* h.mu is released for addClient and Run returns to the channel.
C9_FanOutEnds == (hpc = "bcast") ~> (hpc = "recv")

\* the pipeline has come to rest with the browser connected
PipeQuiescent ==
    /\ Quiescent(FileA)
    /\ eventCh = <<>>
    /\ hpc = "recv"
    /\ "c1" \in clients

\* C6: with a browser connected, every complete line that is appended to the
\* followed file and classifies to an event reaches the browser as exactly one
\* frame carrying that event.  Stated for the states in which the pipeline has
\* come to rest: by then the frame of every such line has been written.
C6_EndToEnd ==
    PipeQuiescent =>
        \A o \in LineStarts(content[FileA]) :
            (o >= tl[FileA].start /\ Complete(content[FileA], o)
               /\ ParseLine(TrimRight(LineAt(content[FileA], o))) = "event") =>
                Cardinality({k \in DOMAIN recv["c1"] :
                                recv["c1"][k].ev.path = FileA
                                  /\ recv["c1"][k].ev.off = o}) = 1

\* C11: any number of Stop calls, one after another or at the same time from
\* several goroutines and while Start runs, close m.done exactly once and never
\* panic.
C11_StopClosesOnce == closes <= 1 /\ (done <=> closes = 1)

\* every goroutine of the Manager has returned and m.tailing is empty
ManagerStopped ==
    /\ wpc = "returned"
    /\ DOMAIN tailing = {}
    /\ \A f \in FileUniverse : live[f] = 0

\* C12: once Stop has closed m.done, Start returns and every Tailer exits,
\* also one parked at EOF and one blocked in the send on a full channel; each
\* deletes its entry of m.tailing, which becomes empty and stays empty.
C12_ShutdownCompletes == done ~> [] ManagerStopped

\* C12 witness: after Stop everything has returned, and one Tailer left from the
\* send select with an event it had classified and could not enqueue.
C12_Witness ==
    /\ done
    /\ ManagerStopped
    /\ \E i \in DOMAIN classified :
          /\ ParseLine(classified[i].bytes) = "event"
          /\ \A k \in DOMAIN enq :
                ~(enq[k].path = classified[i].path /\ enq[k].off = classified[i].off)

\* C13: after the shutdown signal has fired every goroutine of the pipeline
\* returns: Start, every Tailer, and Hub.Run.
C13_AllTasksTerminate == done ~> (ManagerStopped /\ hpc = "returned")

\* C19: Hub.Run returns only when the channel is closed and every event sent on
\* it has been taken and broadcast; while the channel is open a full channel
\* gets room again, whether or not connections are registered or their writes
\* fail, and once the channel is closed Run does return.
C19_RunDrainsUntilClosed ==
    /\ [](hpc = "returned" => (closed /\ eventCh = <<>> /\ seq = offered))
    /\ (Len(eventCh) = ChanCap) ~> (Len(eventCh) < ChanCap)
    /\ closed ~> (hpc = "returned")

\* C19 witness: Run has returned after taking three events, the last of them
\* with no connection registered, and a write had failed before.
C19_Witness ==
    /\ hpc = "returned"
    /\ seq >= 3
    /\ clients = {}
    /\ \E c \in Conns : conn[c] = "closed"

\* C14: no line that a file held when Start ran its sweep is ever enqueued,
\* whatever notifications arrive for the file afterwards.
C14_NoStartupBackfill ==
    \A i \in DOMAIN enq : enq[i].off >= atStart[enq[i].path]

\* the place of a path in the layout: watchPath/<project>/<name> or
\* watchPath/<project>/<session-id>/subagents/<name>
InLayout(f) ==
    \/ Len(f) = 3 /\ Dir(Dir(f)) = watchPath
    \/ Len(f) = 5 /\ f[4] = "subagents" /\ SubSeq(f, 1, 1) = watchPath

\* the Watcher has nothing left to do: no notification is pending, and every
\* Tailer is parked at EOF with no wake-up in its channel
Settled ==
    /\ wpc = "loop"
    /\ fsq = <<>>
    /\ \A f \in FileUniverse :
          live[f] > 0 => (f \in DOMAIN tailing /\ tl[f].pc = "wait" /\ tailing[f] = 0)

\* C15: a log that comes into existence after Start ran its sweep, at a place
\* of the layout, is followed from byte 0: once the Watcher has nothing left to
\* do the file has its Tailer, which began at byte 0, and every complete line of
\* the file that classifies to an event has been enqueued.
C15_NewFileFromByteZero ==
    Settled =>
        \A f \in present :
            (InLayout(f) /\ atStart[f] = -1) =>
                /\ live[f] = 1
                /\ tl[f].start = 0
                /\ \A o \in LineStarts(content[f]) :
                      (Complete(content[f], o)
                         /\ ParseLine(TrimRight(LineAt(content[f], o))) = "event") =>
                          \E i \in DOMAIN enq : enq[i].path = f /\ enq[i].off = o

\* C15 witness: the subagent log, created after startup below directories
\* created after startup, has had its record enqueued, and the session log of
\* the second project, created after startup too, is followed from byte 0.
C15_Witness ==
    /\ Settled
    /\ atStart[FileS] = -1
    /\ atStart[FileC] = -1
    /\ \E i \in DOMAIN enq : enq[i].path = FileS /\ enq[i].off = 0
    /\ FileC \in present
    /\ live[FileC] = 1

\* C16: a Tailer is only ever started for a file at watchPath/<project>/*.jsonl
\* or watchPath/<project>/<session-id>/subagents/*.jsonl; a .jsonl file at any
\* other depth gets no Tailer and no event, whatever notifications arrive.
C16_OnlyLayoutFilesTailed ==
    /\ \A f \in FileUniverse : live[f] > 0 => InLayout(f)
    /\ \A i \in DOMAIN enq : InLayout(enq[i].path)

\* C17: the channel never holds more than its capacity, and holds the events
\* sent last in the order in which they were sent; a Tailer with an event
\* in hand and a full channel waits, and neither drops, duplicates nor reorders
\* the event; the send completes once the consumer has taken an event, and the
\* only other way out is the closed m.done, on which the Tailer returns.
C17_BoundedBlockingSend ==
    /\ [](Len(eventCh) <= ChanCap)
    /\ [](/\ Len(eventCh) <= Len(enq)
          /\ eventCh = SubSeq(enq, Len(enq) - Len(eventCh) + 1, Len(enq)))
    /\ [][\A f \in FileUniverse :
            (tl[f].pc = "send" /\ tl'[f].pc # "send") =>
                \/ /\ Len(eventCh) < ChanCap
                   /\ eventCh' = Append(eventCh, tl[f].ev)
                   /\ enq' = Append(enq, tl[f].ev)
                   /\ live'[f] = live[f]
                \/ /\ done
                   /\ live'[f] = 0
                   /\ f \notin DOMAIN tailing'
                   /\ UNCHANGED <<eventCh, enq>>]_vars
    /\ (tl[FileA].pc = "send") ~> (tl[FileA].pc # "send")

\* C17 witness: before shutdown a Tailer holds an event while the channel is full.
C17_Witness ==
    /\ ~done
    /\ tl[FileA].pc = "send"
    /\ Len(eventCh) = ChanCap
    /\ Len(enq) >= ChanCap

\* C18: a Tailer that cannot open or seek its file enqueues nothing, exits and
\* removes the registry entry of its path, so that no entry is left without a
\* Tailer; the next Write notification for the path starts a new Tailer for it.
C18_OpenFailureRetried ==
    /\ [](\A f \in FileUniverse : f \in DOMAIN tailing <=> live[f] = 1)
    /\ [][\A f \in FileUniverse :
            (tl[f].pc = "open" /\ tl'[f].pc = "none") =>
                             /\ UNCHANGED <<enq, eventCh, classified>>
                             /\ f \notin DOMAIN tailing'
                             /\ live'[f] = 0]_vars
    /\ [][\A f \in FileUniverse :
            (/\ wpc = "loop"
             /\ fsq # <<>>
             /\ fsq' = Tail(fsq)
             /\ Head(fsq) = [op |-> "write", name |-> f]
             /\ f \notin DOMAIN tailing) =>
                                    /\ f \in DOMAIN tailing'
                                    /\ live'[f] = 1
                                    /\ tl'[f] = NewTail(f, FALSE)]_vars

\* C18 witness: after a failed open the file was written, and the Tailer started
\* by the Write notification has enqueued the file's first record.
C18_Witness ==
    /\ faultsLeft = 0
    /\ live[FileA] = 1
    /\ enq # <<>>
    /\ enq[1].path = FileA
    /\ enq[1].off = 0

\* C20: a line classified SKIP or ERROR puts nothing on the channel and does
\* not stop the Tailer; once the Tailer has caught up, every line from where it
\* began has been classified, and the events of exactly the lines that hold
\* one have been enqueued, once each and in the order of the lines.
C20_DiscardAndContinue ==
    /\ [](\A i \in DOMAIN enq : ParseLine(enq[i].line) = "event")
    /\ [][\A f \in FileUniverse :
            (/\ tl[f].pc = "read"
             /\ Len(classified') = Len(classified) + 1
             /\ classified'[Len(classified')].path = f
             /\ ParseLine(classified'[Len(classified')].bytes) # "event") =>
                            /\ UNCHANGED <<enq, eventCh, tailing, live>>
                            /\ tl'[f].pc = "read"]_vars
    /\ [](Settled =>
            \A f \in present :
                /\ live[f] = 1
                /\ \A o \in LineStarts(content[f]) :
                      o >= tl[f].start =>
                          \E i \in DOMAIN classified :
                              classified[i].path = f /\ classified[i].off = o
                /\ \A o \in LineStarts(content[f]) :
                      (/\ o >= tl[f].start
                       /\ Complete(content[f], o)
                       /\ ParseLine(TrimRight(LineAt(content[f], o))) = "event") =>
                          \E i \in DOMAIN enq : enq[i].path = f /\ enq[i].off = o
                /\ \A i, j \in DOMAIN enq :
                      (enq[i].path = f /\ enq[j].path = f /\ i < j) =>
                          enq[i].off < enq[j].off)

\* C20 witness: a SKIP line and an ERROR line were classified and, after them,
\* the event of a later line of the same file was enqueued.
C20_Witness ==
    /\ Settled
    /\ \E i, j \in DOMAIN classified :
          /\ ParseLine(classified[i].bytes) = "skip"
          /\ ParseLine(classified[j].bytes) = "error"
          /\ \E k \in DOMAIN enq :
                /\ enq[k].path = classified[i].path
                /\ enq[k].path = classified[j].path
                /\ enq[k].off > classified[i].off
                /\ enq[k].off > classified[j].off

GivenContent ==
    IF rawIn.text.form = "object" /\ rawIn.text.msg.form = "array"
    THEN rawIn.text.msg.content ELSE <<>>

\* the record given to the Classifier is a well-formed record of type t, and
\* the Classifier has returned
Returned(t) ==
    /\ parsed.kind # "none"
    /\ rawIn.text.form = "object"
    /\ rawIn.text.msg.form # "string"
    /\ rawIn.text.type = t

\* C22: for an assistant record the first tool_use element, at whatever
\* position, decides: event is its tool name, category follows the tool table
\* (unknown names meta), detail is the string at the tool's detail key (its
\* first DetailMax scalars when it is longer); without tool_use the category
\* is ambient and event the first element's type, or assistant without content.
C22_FirstToolUseDecides ==
    Returned("assistant") =>
        /\ parsed.kind = "event"
        /\ LET c == GivenContent
               uses == {i \in DOMAIN c : c[i].type = "tool_use"}
           IN  IF uses = {}
               THEN /\ parsed.category = "ambient"
                    /\ parsed.event = IF c = <<>> THEN "assistant" ELSE c[1].type
                    /\ parsed.detail = <<>>
               ELSE LET b == c[CHOOSE i \in uses : \A j \in uses : i <= j]
                    IN  /\ parsed.event = b.name
                        /\ parsed.category =
                             (CASE b.name \in {"Read", "Grep", "Glob"} -> "read"
                                [] b.name \in {"Edit", "Write", "NotebookEdit"} -> "write"
                                [] b.name = "Bash" -> "action"
                                [] b.name \in {"WebFetch", "WebSearch"} -> "network"
                                [] b.name = "AskUserQuestion" -> "warn"
                                [] OTHER -> "meta")
                        /\ IF /\ b.name \in DOMAIN toolDetailKey
                              /\ b.key = toolDetailKey[b.name]
                              /\ b.str
                           THEN IF Len(Runes(b.val)) <= DetailMax
                                THEN parsed.detail = b.val
                                ELSE Runes(parsed.detail)
                                       = SubSeq(Runes(b.val), 1, DetailMax)
                           ELSE parsed.detail = <<>>

\* C22 witness: a text element came before the tool_use element that decided.
C22_Witness ==
    /\ Returned("assistant")
    /\ Len(GivenContent) = 2
    /\ GivenContent[1].type = "text"
    /\ GivenContent[2].type = "tool_use"
    /\ parsed.event = "Edit"
    /\ parsed.category = "write"
    /\ parsed.detail = <<"a">>

\* C23: for a user record with a tool_result element the event is tool_result,
\* with category error when is_error is true and success otherwise, also when
\* other elements come before it; without tool_result, without message or with
\* empty content the result is warn with event user_input.
C23_ToolResultWins ==
    Returned("user") =>
        /\ parsed.kind = "event"
        /\ parsed.detail = <<>>
        /\ LET c == GivenContent
               res == {i \in DOMAIN c : c[i].type = "tool_result"}
           IN  IF res = {}
               THEN parsed.category = "warn" /\ parsed.event = "user_input"
               ELSE /\ parsed.event = "tool_result"
                    /\ parsed.category =
                         IF c[CHOOSE i \in res : \A j \in res : i <= j].is_error
                         THEN "error" ELSE "success"

\* C23 witness: a text element came before the failed tool_result.
C23_Witness ==
    /\ Returned("user")
    /\ Len(GivenContent) = 2
    /\ GivenContent[1].type = "text"
    /\ GivenContent[2].type = "tool_result"
    /\ GivenContent[2].is_error
    /\ parsed.category = "error"
    /\ parsed.event = "tool_result"

\* C24: a progress record is skipped exactly when data.message is present and
\* not empty; every other progress record yields a meta event progress whose
\* detail is data.type, cut to DetailMax scalars.
C24_ProgressSkipRule ==
    Returned("progress") =>
        LET d == rawIn.text.data
        IN  IF d.form = "object" /\ d.message = "object"
            THEN parsed.kind = "skip"
            ELSE /\ parsed.kind = "event"
                 /\ parsed.category = "meta"
                 /\ parsed.event = "progress"
                 /\ Runes(parsed.detail)
                      = IF d.form = "absent" THEN <<>>
                        ELSE IF Len(Runes(d.type)) <= DetailMax THEN Runes(d.type)
                        ELSE SubSeq(Runes(d.type), 1, DetailMax)

\* C25: a progress record without data.message is not skipped and is
\* classified as category init with event session_start.
C25_ProgressIsInit ==
    (/\ Returned("progress")
     /\ (rawIn.text.data.form = "absent" \/ rawIn.text.data.message = "absent"))
      => /\ parsed.kind = "event"
         /\ parsed.category = "init"
         /\ parsed.event = "session_start"

\* C26: the detail of every event has at most DetailMax Unicode scalars: it is
\* the source value when that has at most DetailMax scalars and its first
\* DetailMax scalars otherwise; it is empty when the tool has no detail key or
\* the key is missing or its value is not a string.
C26_DetailTruncated ==
    (parsed.kind = "event" /\ rawIn.text.form = "object") =>
        LET t == rawIn.text
            c == GivenContent
            uses == {i \in DOMAIN c : c[i].type = "tool_use"}
            b == c[CHOOSE i \in uses : \A j \in uses : i <= j]
            none == [has |-> FALSE, val |-> <<>>]
            src == IF t.type = "assistant" /\ uses # {}
                   THEN IF /\ b.name \in DOMAIN toolDetailKey
                           /\ b.key = toolDetailKey[b.name]
                           /\ b.str
                        THEN [has |-> TRUE, val |-> b.val] ELSE none
                   ELSE IF t.type = "progress" /\ t.data.form = "object"
                        THEN [has |-> TRUE, val |-> t.data.type] ELSE none
        IN  /\ Len(Runes(parsed.detail)) <= DetailMax
            /\ "U+FFFD" \notin {Runes(parsed.detail)[i] : i \in DOMAIN Runes(parsed.detail)}
            /\ IF ~src.has THEN parsed.detail = <<>>
               ELSE IF Len(Runes(src.val)) <= DetailMax THEN parsed.detail = src.val
               ELSE parsed.detail = Utf8(SubSeq(Runes(src.val), 1, DetailMax))

\* C26 witness: a value of more than DetailMax two-byte scalars was cut to
\* DetailMax scalars, which are twice as many bytes.
C26_Witness ==
    /\ parsed.kind = "event"
    /\ parsed.event = "Read"
    /\ Len(parsed.detail) = 2 * DetailMax
    /\ Len(GivenContent[1].val) > 2 * DetailMax

\* C27: the session label of an event is the last non-empty "/"-separated
\* component of the record's cwd, trailing slashes ignored; for an empty cwd it
\* is the cwd itself; it is the same whatever file the line was read from.
C27_SessionFromCwd ==
    (parsed.kind = "event" /\ rawIn.text.form = "object") =>
        LET cwd == rawIn.text.cwd
            named == {i \in 1..Len(cwd) : cwd[i] # "/"}
            end == CHOOSE i \in named : \A j \in named : j <= i
            before == {i \in 1..end : cwd[i] = "/"}
            from == IF before = {} THEN 1
                    ELSE 1 + CHOOSE i \in before : \A j \in before : j <= i
        IN  /\ cwd = <<>> => parsed.session = cwd
            /\ named # {} => parsed.session = SubSeq(cwd, from, end)

\* C27 witness: a line of a subagent file whose cwd ends in a slash got the
\* component before the slash as its label.
C27_Witness ==
    /\ parsed.kind = "event"
    /\ rawIn.text.form = "object"
    /\ rawIn.path = FileS
    /\ rawIn.text.cwd = <<"/", "a", "/">>
    /\ parsed.session = <<"a">>

\* C28: a PUT /api/config whose body has a member unknown to the Config
\* succeeds: the member is ignored, the known members are saved to disk and
\* the updated Config is returned.
C28_UnknownFieldIgnored ==
    (reply.status # 0 /\ reply.method = "PUT" /\ "theme" \in reply.req.has
       /\ reply.status # 500) =>
        /\ reply.status = 200
        /\ cfgFile.form = "file"
        /\ reply.cfg = cfgFile.cfg
        /\ \A f \in reply.req.has \cap DOMAIN Default : cfgFile.cfg[f] = reply.req[f]

\* C29: a Tailer that carried a partial line over an EOF wait and delivered the
\* completed line keeps following the file: whenever it is parked at EOF with
\* no notification outstanding, every complete line appended since has been
\* read and classified.
C29_FollowsAfterPartialLine ==
    (/\ Quiescent(FileA)
     /\ tl[FileA].rd = "multi"
     /\ \E i \in DOMAIN classified :
           classified[i].path = FileA /\ classified[i].off >= tl[FileA].start)
      => \A o \in LineStarts(content[FileA]) :
            (/\ o >= tl[FileA].start
             /\ Complete(content[FileA], o)
             /\ TrimRight(LineAt(content[FileA], o)) # <<>>)
              => \E i \in DOMAIN classified :
                    classified[i].path = FileA /\ classified[i].off = o

\* C30: for a file found by the startup sweep, every complete line appended
\* after the sweep registered the file is emitted, also a line appended before
\* the Tailer has run its seek to the end.
C30_SeekSkipsNothing ==
    Settled =>
        \A f \in present :
            atStart[f] >= 0 =>
                \A o \in LineStarts(content[f]) :
                    (o >= atStart[f] /\ Complete(content[f], o)) =>
                        /\ \E i \in DOMAIN classified :
                              classified[i].path = f /\ classified[i].off = o
                        /\ ParseLine(TrimRight(LineAt(content[f], o))) = "event" =>
                              \E i \in DOMAIN enq : enq[i].path = f /\ enq[i].off = o

\* C31: a registry entry for a path exists exactly while a Tailer of that path
\* is live.  An entry appears only in a step of the Watcher that starts a
\* Tailer for a path without entry and without Tailer; an entry disappears only
\* in the step in which the Tailer of that path ends; and while an entry stays,
\* no Tailer of its path starts or ends, so an exit never takes the entry of a
\* Tailer started later.
C31_RegistryMatchesTailers ==
    /\ [](\A f \in FileUniverse :
            /\ live[f] \in {0, 1}
            /\ (f \in DOMAIN tailing) <=> (live[f] = 1)
            /\ (f \in DOMAIN tailing) <=> (tl[f].pc # "none"))
    /\ [][\A f \in FileUniverse :
            /\ (f \notin DOMAIN tailing /\ f \in DOMAIN tailing') =>
                  /\ live[f] = 0 /\ live'[f] = 1
                  /\ tl'[f].pc = "open"
                  /\ wpc' = "loop" /\ (wpc = "new" \/ fsq' = Tail(fsq))
            /\ (f \in DOMAIN tailing /\ f \notin DOMAIN tailing') =>
                  /\ live[f] = 1 /\ live'[f] = 0
                  /\ tl[f].pc # "none" /\ tl'[f] = NoTail
            /\ (f \in DOMAIN tailing /\ f \in DOMAIN tailing') =>
                  /\ live'[f] = live[f]
                  /\ tl'[f].pc # "none"
                  /\ tl'[f].start = tl[f].start \/ tl[f].pc = "open"]_vars

\* C31 witness: a Tailer of r/p/a.jsonl ended on an I/O error and took its entry
\* with it, and a later notification has put a new entry and a new Tailer there.
C31_Witness ==
    /\ faultsLeft = 0
    /\ FileA \in DOMAIN tailing
    /\ live[FileA] = 1
    /\ tl[FileA].pc = "open"
    /\ ~tl[FileA].seekEnd

\* C32: the wake signal of a path holds at most one wake.  Handling a Write
\* notification for a .jsonl path leaves a wake pending for its Tailer whatever
\* the Tailer is doing, and leaves one wake when one was pending already.  A
\* pending wake stays until the Tailer takes it in its EOF wait or ends.  A
\* Tailer leaves its EOF wait only by taking a wake or by seeing m.done closed,
\* and a Tailer that reaches its EOF wait with a wake pending leaves it.
C32_WakeIsOneSlotLossless ==
    /\ [](\A f \in DOMAIN tailing : tailing[f] \in {0, 1})
    /\ [][/\ (/\ wpc = "loop" /\ wpc' = "loop"
               /\ fsq # <<>> /\ fsq' = Tail(fsq)
               /\ Head(fsq).op = "write" /\ isJSONL(Head(fsq).name)) =>
                 /\ Head(fsq).name \in DOMAIN tailing'
                 /\ tailing'[Head(fsq).name] = 1
          /\ \A f \in FileUniverse :
               /\ (f \in DOMAIN tailing /\ tailing[f] = 1) =>
                     \/ f \in DOMAIN tailing' /\ tailing'[f] = 1
                     \/ /\ tl[f].pc = "wait" /\ tl'[f].pc = "read"
                        /\ f \in DOMAIN tailing' /\ tailing'[f] = 0
                     \/ f \notin DOMAIN tailing'
               /\ (tl[f].pc = "wait" /\ tl'[f].pc # "wait") =>
                     \/ /\ tailing[f] = 1 /\ tl'[f].pc = "read"
                        /\ f \in DOMAIN tailing' /\ tailing'[f] = 0
                     \/ done /\ tl'[f].pc = "none"]_vars
    /\ (/\ tl[FileA].pc = "wait"
        /\ FileA \in DOMAIN tailing
        /\ tailing[FileA] = 1) ~> (tl[FileA].pc # "wait")

\* C32 witness: two records were appended to r/p/a.jsonl after the sweep, both
\* Write notifications have been handled while the Tailer had not yet run, and
\* one wake is pending.
C32_Witness ==
    /\ wpc = "loop"
    /\ fsq = <<>>
    /\ Len(content[FileA]) - atStart[FileA] >= 2 * Len(EventLine)
    /\ FileA \in DOMAIN tailing
    /\ tailing[FileA] = 1
    /\ tl[FileA].pc = "open"

\* C33: h.clients changes during a fan-out only by the eviction of the
\* connection whose write failed: a connection is inserted, and the read
\* goroutine of a connection removes it, only between fan-outs.  A connection
\* whose handshake completed during a fan-out is not in h.clients until the
\* fan-out is over and gets no frame of its event; every connection that is in
\* h.clients when a fan-out ends has the frame of that event as its last one,
\* and the frames a connection has are those of consecutive events.
C33_FanOutExcludesRegistry ==
    /\ [](hpc = "bcast" =>
            /\ clients = startSet \ failed
            /\ todo \subseteq startSet
            /\ \A c \in Conns : conn[c] = "upgraded" => recv[c] = <<>>)
    /\ [](\A c \in Conns : \A i \in 1..(Len(recv[c]) - 1) :
            recv[c][i + 1].seq = recv[c][i].seq + 1)
    /\ [][\A c \in Conns :
            /\ (c \notin clients /\ c \in clients') =>
                  /\ hpc # "bcast" /\ hpc' # "bcast"
                  /\ conn[c] = "upgraded"
                  /\ recv'[c] = <<>>
            /\ (c \in clients /\ c \notin clients' /\ hpc = "bcast") =>
                  c \in todo /\ c \notin todo' /\ c \in failed'
            /\ (hpc = "bcast" /\ hpc' = "recv" /\ c \in clients) =>
                  /\ recv[c] # <<>>
                  /\ recv[c][Len(recv[c])] = payload
                  /\ payload.seq = seq]_vars

\* C33 witness: the range loop of the second or a later fan-out has written the
\* frame to a connection while another connection, whose handshake is
\* complete, waits in addClient and has been written nothing.
C33_Witness ==
    /\ FanOutOver
    /\ payload.seq >= 2
    /\ \E c, d \in Conns :
          /\ conn[c] = "upgraded"
          /\ recv[c] = <<>>
          /\ d \in clients
          /\ recv[d][Len(recv[d])] = payload

\* C34: when the read goroutine of a connection ends on a read error, the
\* connection is closed and is not in h.clients.  conn.Close() is called on a
\* connection at most once: by broadcast when a write to it fails, or by
\* removeClient, whichever gets to it first while it is in h.clients; the one
\* that comes second finds it absent and changes nothing.  A connection is in
\* h.clients exactly from addClient to that one Close.
C34_ClosedOnceOnReadError ==
    /\ [](\A c \in Conns :
            /\ Len(closedBy[c]) <= 1
            /\ (c \in clients) <=> (conn[c] = "open")
            /\ (conn[c] = "closed") <=> (Len(closedBy[c]) = 1))
    /\ [][\A c \in Conns :
            /\ (drain[c] /\ ~drain'[c]) =>
                  /\ peer[c] = "gone" \/ conn[c] = "closed"
                  /\ conn'[c] = "closed"
                  /\ c \notin clients'
                  /\ IF c \in clients
                     THEN closedBy'[c] = <<"removeClient">>
                     ELSE closedBy'[c] = closedBy[c] /\ clients' = clients
            /\ (c \in clients /\ c \notin clients') =>
                  /\ closedBy[c] = <<>>
                  /\ Len(closedBy'[c]) = 1
            /\ (c \in todo /\ c \notin todo' /\ conn[c] = "closed") =>
                  closedBy'[c] = closedBy[c]]_vars

\* C34 witness: broadcast has closed a connection whose write failed, and the
\* read goroutine of that connection has ended since, calling removeClient.
C34_Witness ==
    \E c \in Conns :
        /\ closedBy[c] = <<"broadcast">>
        /\ ~drain[c]
        /\ conn[c] = "closed"
        /\ c \notin clients

\* C35: handling the notification of a created directory treats the directory
\* by its position.  A directory whose parent is the root is watched and the
\* .jsonl files it holds have a Tailer that reads from byte 0 unless they had
\* one already; any other directory named subagents likewise; every other
\* directory is watched, and if it holds a directory subagents, that one is
\* watched and its .jsonl files have such a Tailer.
C35_RoleByPosition ==
    [][(/\ wpc = "loop" /\ wpc' = "loop"
        /\ fsq # <<>> /\ fsq' = Tail(fsq)
        /\ Head(fsq).op = "create" /\ isDir(Head(fsq).name)) =>
          LET d == Head(fsq).name
              sub == Append(d, "subagents")
              Handled(dir) ==
                  /\ dir \in watched'
                  /\ \A f \in Glob(dir) :
                        /\ f \in DOMAIN tailing'
                        /\ f \notin DOMAIN tailing =>
                              tl'[f].pc = "open" /\ ~tl'[f].seekEnd
          IN  IF Dir(d) = watchPath \/ Base(d) = "subagents"
              THEN Handled(d)
              ELSE d \in watched' /\ (isDir(sub) => Handled(sub))]_vars

\* C36: every event sent to the ingress channel from a file in a directory
\* named subagents has isSubagent = TRUE, and every event from a session log
\* directly in a project directory has isSubagent = FALSE.  The value is that
\* of the Tailer, which has it from its path for as long as it lives.
C36_SubagentFlagFromPath ==
    /\ \A i \in DOMAIN enq :
          /\ Base(Dir(enq[i].path)) = "subagents" => enq[i].isSubagent
          /\ Dir(Dir(enq[i].path)) = watchPath => ~enq[i].isSubagent
    /\ \A f \in FileUniverse :
          tl[f].pc # "none" =>
              /\ tl[f].isSubagent = isSubagentPath(f)
              /\ tl[f].pc = "send" =>
                    tl[f].ev.path = f /\ tl[f].ev.isSubagent = tl[f].isSubagent

\* C36 witness: the record of the subagent log has been enqueued with the flag
\* set, and the session log of the second project is followed by a Tailer
\* without it.
C36_Witness ==
    /\ \E i \in DOMAIN enq : enq[i].path = FileS /\ enq[i].isSubagent
    /\ tl[FileC].pc = "wait"
    /\ ~tl[FileC].isSubagent

\* C37: an error reported by the watcher, or a watcher.Add that fails for a
\* directory other than the root, does not end the loop of Start, and what is
\* outside that directory is followed as without the failure.  Once the Watcher
\* has nothing left to do, every project directory for which Add does not fail
\* is watched; a log that existed at the sweep in a place of the layout has its
\* Tailer; and a log created later in a place of the layout has a Tailer that
\* began at byte 0 and has enqueued every complete record of the file, provided
\* Add fails for none of the directories above the log.
C37_WatchFailureIsLocal ==
    /\ [][(wpc = "loop" /\ watchPath \notin addErr) => wpc' = "loop"]_vars
    /\ [](Settled =>
            /\ \A d \in dirs :
                  (Len(d) = 2 /\ d \notin addErr) => d \in watched
            /\ \A f \in present :
                  (/\ InLayout(f)
                   /\ \A k \in 2..(Len(f) - 1) : SubSeq(f, 1, k) \notin addErr) =>
                      /\ live[f] = 1
                      /\ atStart[f] = -1 =>
                            /\ tl[f].start = 0
                            /\ \A o \in LineStarts(content[f]) :
                                  Complete(content[f], o) =>
                                      \E i \in DOMAIN enq :
                                          enq[i].path = f /\ enq[i].off = o)

\* C37 witness: watcher.Add failed for the first project directory and the
\* watcher reported an error; the Watcher has nothing left to do, the second
\* project directory, created later, is watched, and the record of its session
\* log has been enqueued.
C37_Witness ==
    /\ Settled
    /\ addErr = {ProjP}
    /\ faultsLeft = 0
    /\ ProjP \notin watched
    /\ ProjQ \in watched
    /\ atStart[FileC] = -1
    /\ \E i \in DOMAIN enq : enq[i].path = FileC /\ enq[i].off = 0

\* C38: the Watcher handles the next notification whenever one is pending,
\* whatever the Tailers are doing: also when a Tailer is blocked in its send on
\* the full ingress channel, and also when the wake of the written file is
\* still pending.  Handling a notification neither sends on the ingress channel
\* nor changes a Tailer that is running.
C38_WatcherNeverWaits ==
    /\ []((Alive /\ wpc = "loop" /\ fsq # <<>>) => ENABLED HandleEvent)
    /\ [][(wpc = "loop" /\ wpc' = "loop" /\ fsq # <<>> /\ fsq' = Tail(fsq)) =>
            /\ eventCh' = eventCh
            /\ enq' = enq
            /\ \A f \in FileUniverse : tl[f].pc # "none" => tl'[f] = tl[f]]_vars

\* C38 witness: the Tailer of r/p/a.jsonl is blocked in its send, the ingress
\* channel being full, and a Write notification of the file is pending.
C38_Witness ==
    /\ Alive /\ ~done
    /\ wpc = "loop"
    /\ fsq # <<>>
    /\ Head(fsq) = [op |-> "write", name |-> FileA]
    /\ tl[FileA].pc = "send"
    /\ Len(eventCh) = ChanCap

\* C39: a manifest request is refused (400, or 404 when nothing could be
\* loaded), or the pack.json whose content is returned is
\* packsDir/<child>/pack.json for a directory <child> directly in packsDir; no
\* manifest is returned from any other place.
C39_ManifestInsidePacksDir ==
    (reply.status # 0 /\ reply.method = "MANIFEST") =>
        \/ reply.status \in {400, 404}
        \/ /\ reply.status = 200
           /\ Len(reply.read) = Len(packsDir) + 2
           /\ SubSeq(reply.read, 1, Len(packsDir)) = packsDir
           /\ reply.read[Len(reply.read)] = <<"pack.json">>

====
